---------------------------- MODULE Spec2Model ----------------------------
(***************************************************************************)
(* A model of the zcloudpass client: the session store and the versioned   *)
(* vault synchronisation of api.ts (src/unnamed/part_000), the handlers of *)
(* the App component (src/src/App.tsx) that add an entry and rotate the    *)
(* master password, and the Settings / Vault components                    *)
(* (src/src/components/Vault.tsx) that change the password and save the    *)
(* vault.  The remote service is modelled by its HTTP contract.            *)
(*                                                                         *)
(* JavaScript runs each handler to its next await without interruption, so *)
(* one action is the code between two awaits of one handler invocation.    *)
(* A handler invocation is a task; it keeps the values its closure         *)
(* captured from the render in which it was invoked.                       *)
(*                                                                         *)
(* EntrySpec is the entry operations of the Vault component.  Spec is the  *)
(* vault synchronisation of two concurrent invocations against *)
(* a well-behaved service; AuthSpec is the session store and the           *)
(* authentication client against any stored record, date parser and        *)
(* service answer; ExpirySpec is isSessionExpired of both revisions of     *)
(* api.ts (src/unnamed/part_000 and the earlier src/unnamed/part_001);     *)
(* CryptoSpec is encryptVault and decryptVault of src/src/lib/crypto.ts,   *)
(* called in any order on any vault, password and text.                    *)
(***************************************************************************)
EXTENDS Integers, Sequences, FiniteSets, TLC

VARIABLES
    rng,            \* crypto.getRandomValues: how many values it has handed out
    blobs,          \* history: salt and nonce of each encrypted text made
    engine,         \* the JavaScript engine's Date parser and time zone
    now,            \* Date.now(), in ticks
    session,        \* localStorage["zcloudpass_session"]
    srvCred,        \* the service's login credential of the account
    srvVault,       \* the service's stored ciphertext
    srvVersion,     \* the service's vault version counter
    srvLog,         \* history: the writes the service accepted, in order
    masterPassword, \* App state masterPassword
    vault,          \* App state vault (the decrypted entries)
    vaultVersion,   \* App state vaultVersion
    task,           \* the handler invocations
    net             \* the fetch of each invocation: request or response

vars == <<rng, blobs,
          engine, now, session, srvCred, srvVault, srvVersion, srvLog,
          masterPassword, vault, vaultVersion, task, net>>

(***************************************************************************)
(* Bounds of the model.                                                    *)
(***************************************************************************)
MaxTime == 2
SessionTTL == 1

Tasks == {"t1", "t2"}
Passwords == {"p1", "p2"}
Inputs == Passwords \cup {""}

(***************************************************************************)
(* Optional values: <<>> is undefined / null, <<x>> is the value x.        *)
(***************************************************************************)
None == <<>>
Some(x) == <<x>>
IsSome(o) == o # <<>>
Val(o) == o[1]

(***************************************************************************)
(* Ciphertext: the key it was encrypted under and the plaintext entries.   *)
(***************************************************************************)
encryptVault(v, key) == Some([key |-> key, data |-> v])
\* A bug: a decryption that succeeds under every key.
CanDecrypt_Always(blob, key) == TRUE

CanDecrypt(blob, key) == Val(blob).key = key

\* A bug: a reload that keeps what the App holds.
decryptVault_KeepLocal(blob, key) == vault

decryptVault(blob, key) == Val(blob).data

(***************************************************************************)
(* lib/crypto.ts step by step.  The primitives of the platform are         *)
(* modelled by their contracts: getRandomValues hands out values it has    *)
(* not handed out before, PBKDF2 derives a different key for a different   *)
(* password or salt, AES-GCM opens a ciphertext only under the key and     *)
(* nonce that sealed it and only if no byte of it was changed or is        *)
(* missing.                                                                *)
(***************************************************************************)
\* The entries a vault may hold; at most MaxEntries of them.
Entries == {"e1", "e2"}
MaxEntries == 3

RECURSIVE SeqsUpTo(_)
SeqsUpTo(n) ==
    IF n = 0 THEN {<<>>}
    ELSE SeqsUpTo(n - 1)
         \cup {Append(v, e) : v \in {w \in SeqsUpTo(n - 1) : Len(w) = n - 1},
                              e \in Entries}

Vaults == SeqsUpTo(MaxEntries)

\* A bug: a constant in place of the random bytes.
getRandomValues_Fixed(drawn) == 0

\* crypto.getRandomValues(new Uint8Array(n)), when drawn values are out.
getRandomValues(drawn) == drawn + 1

\* A bug: a key that does not depend on the password.
deriveKey_SaltOnly(password, salt) == [pw |-> "", salt |-> salt]

deriveKey(password, salt) == [pw |-> password, salt |-> salt]

\* Plain texts: JSON.stringify(vault) is the JSON text of an object with
\* the entries in their order; the texts "null" and "{}" are JSON without
\* entries, and some text is no JSON at all.
JsonStringify(v) == [json |-> TRUE, kind |-> "vault", entries |-> v]
JsonNull == [json |-> TRUE, kind |-> "null", entries |-> <<>>]
JsonNoEntries == [json |-> TRUE, kind |-> "object", entries |-> <<>>]
NotJson == [json |-> FALSE, kind |-> "text", entries |-> <<>>]

\* JSON.parse: none is a SyntaxError.
JsonParse(text) == IF text.json THEN Some(text) ELSE None

\* crypto.subtle.encrypt / decrypt with AES-GCM: the ciphertext with its
\* tag; intact is lost when a byte of it is changed.
AesGcmEncrypt(key, iv, plain) ==
    [key |-> key, iv |-> iv, plain |-> plain, intact |-> TRUE]

AesGcmDecrypt(key, iv, data) ==
    IF data.key = key /\ data.iv = iv /\ data.intact
    THEN Some(data.plain)
    ELSE None

\* salt(16) + iv(12) + ciphertext; cut when bytes are missing at the end.
Combined(salt, iv, data) ==
    [salt |-> salt, iv |-> iv, data |-> data, cut |-> FALSE]

\* The number of bytes of the combined array, in units of one entry.
ByteLength(combined) == Len(combined.data.plain.entries)

\* The most arguments the engine takes in one call, in the same units:
\* String.fromCharCode(...combined) passes every byte as an argument.
MaxArgs == 2

\* btoa(String.fromCharCode(...combined)): none is the RangeError of a
\* call with too many arguments.
Btoa(combined) ==
    IF ByteLength(combined) > MaxArgs
    THEN None
    ELSE Some([b64 |-> TRUE, bytes |-> combined])

\* A text that is not base64.
NotBase64 ==
    [b64 |-> FALSE,
     bytes |-> Combined(0, 0, AesGcmEncrypt(deriveKey("", 0), 0, NotJson))]

\* atob: none is the InvalidCharacterError.
Atob(text) == IF text.b64 THEN Some(text.bytes) ELSE None

\* encryptVault, given what getRandomValues returned for salt and iv: the
\* text, or none when the encoding threw.
encryptVaultText(v, password, salt, iv) ==
    Btoa(Combined(salt, iv,
                  AesGcmEncrypt(deriveKey(password, salt), iv,
                                JsonStringify(v))))

\* The try block of decryptVault: what was thrown in it, and the vault it
\* would return.
TryDecrypt(text, password) ==
    LET combined == Atob(text)
        key == deriveKey(password, Val(combined).salt)
        plain == IF Val(combined).cut
                 THEN None
                 ELSE AesGcmDecrypt(key, Val(combined).iv, Val(combined).data)
        parsed == JsonParse(Val(plain))
    IN  IF ~IsSome(combined)
        THEN [thrown |-> "InvalidCharacterError", vault |-> None]
        ELSE IF ~IsSome(plain)
        THEN [thrown |-> "OperationError", vault |-> None]
        ELSE IF ~IsSome(parsed)
        THEN [thrown |-> "SyntaxError", vault |-> None]
        ELSE IF Val(parsed).kind # "vault"
        THEN [thrown |-> "TypeError", vault |-> None]
        ELSE [thrown |-> "none", vault |-> Some(Val(parsed).entries)]

(***************************************************************************)
(* Timestamps as text.  Iso(t) is the ISO-8601 text of the instant t,      *)
(* Spaced(t) the text "YYYY-MM-DD HH:MM:SS" of the wall-clock reading t,   *)
(* Junk a text no parser reads as a date (String(undefined) is one), Empty *)
(* the empty text.                                                         *)
(***************************************************************************)
Iso(t) == [form |-> "iso", t |-> t]
Spaced(t) == [form |-> "spaced", t |-> t]
Junk == [form |-> "junk", t |-> 0]
Empty == [form |-> "empty", t |-> 0]

\* Date.parse / new Date(text).getTime(): none is NaN.  ISO text is read
\* alike by every engine; the spaced form is outside the standard format:
\* a lenient engine reads it as local time, a strict one does not read it.
DateParse(text) ==
    CASE text.form = "iso" -> Some(text.t)
      [] text.form = "spaced" -> IF engine.lenient
                                 THEN Some(text.t - engine.offset)
                                 ELSE None
      [] OTHER -> None

\* A bug: the instant written as spaced wall-clock text.
toISOString_Spaced(t) == Spaced(t)

toISOString(t) == Iso(t)

\* /^\d{4}-\d{2}-\d{2} \d{2}:\d{2}:\d{2}/.test(expires)
MatchesSpaced(text) == text.form = "spaced"

\* expires.replace(" ", "T") + "Z"
AsUtcText(text) == IF text.form = "spaced" THEN Iso(text.t) ELSE Junk

\* 60 * 60 * 1000 ms, in ticks
Hour == 2

\* A bug: no default for an expiry nothing reads; the text is handed on.
normalizeExpiresToISO_NoFallback(expires) ==
    IF IsSome(DateParse(expires))
    THEN toISOString(Val(DateParse(expires)))
    ELSE IF IsSome(DateParse(AsUtcText(expires)))
    THEN toISOString(Val(DateParse(AsUtcText(expires))))
    ELSE expires

normalizeExpiresToISO(expires) ==
    IF expires = Empty THEN toISOString(now + Hour)
    ELSE IF IsSome(DateParse(expires))
    THEN toISOString(Val(DateParse(expires)))
    ELSE IF MatchesSpaced(expires) /\ IsSome(DateParse(AsUtcText(expires)))
    THEN toISOString(Val(DateParse(AsUtcText(expires))))
    ELSE IF IsSome(DateParse(AsUtcText(expires)))
    THEN toISOString(Val(DateParse(AsUtcText(expires))))
    ELSE toISOString(now + Hour)

(***************************************************************************)
(* Session store.  The record under "zcloudpass_session": absent, a text   *)
(* JSON.parse rejects, or the JSON of {token, expires_at}; a token that is *)
(* undefined is none; keys are the members the stored object has.         *)
(***************************************************************************)
NoSession ==
    [raw |-> "absent", token |-> None, expires_at |-> Junk, keys |-> {}]
GarbledSession ==
    [raw |-> "garbled", token |-> None, expires_at |-> Junk, keys |-> {}]
StoredSession(info) ==
    [raw |-> "json", token |-> info.token, expires_at |-> info.expires_at,
     keys |-> DOMAIN info]

\* A bug: a session object that also holds the master password.
SessionInfo_WithPassword(token, expires_at) ==
    [token |-> token, expires_at |-> expires_at,
     master_password |-> "p1"]

SessionInfo(token, expires_at) == [token |-> token, expires_at |-> expires_at]

\* { ...info, expires_at: normalizeExpiresToISO(String(info.expires_at)) }
saveSession(info) ==
    StoredSession([info EXCEPT
                      !.expires_at = normalizeExpiresToISO(info.expires_at)])

\* A bug: JSON.parse without its try: whatever is stored is handed on.
loadSession_Unchecked ==
    Some(SessionInfo(session.token, session.expires_at))

loadSession ==
    IF session.raw = "json"
    THEN Some(SessionInfo(session.token, session.expires_at))
    ELSE None

NewSession(token, exp) == saveSession(SessionInfo(Some(token), Iso(exp)))

\* A bug: a session that never expires.
isSessionExpired_Never(s) == FALSE

isSessionExpired(s) ==
    LET exp == DateParse(s.expires_at)
    IN  IF ~IsSome(exp) THEN TRUE ELSE now > Val(exp)

\* isSessionExpired of the earlier api.ts (part_001): no test for NaN, and
\* Date.now() > NaN is false.
isSessionExpiredPart001(s) ==
    LET exp == DateParse(s.expires_at)
    IN  IF ~IsSome(exp) THEN FALSE ELSE now > Val(exp)

\* `Bearer ${token}`: an undefined token is the text "undefined".
TemplateText(o) == IF IsSome(o) THEN Val(o) ELSE "undefined"

\* A bug: a caller without its test of the token.
Falsy_Never(o) == FALSE

\* !token of JavaScript
Falsy(o) == ~IsSome(o) \/ Val(o) = ""

getSessionToken ==
    IF ~IsSome(loadSession) \/ isSessionExpired(Val(loadSession))
    THEN None
    ELSE Val(loadSession).token

authHeadersIfAvailable ==
    IF ~IsSome(loadSession) \/ isSessionExpired(Val(loadSession))
    THEN None
    ELSE Some(TemplateText(Val(loadSession).token))

(***************************************************************************)
(* Error bodies of the service and the errors api.ts makes of them.        *)
(***************************************************************************)
NoBody == [json |-> FALSE, error |-> "", code |-> "", message |-> ""]
ErrBodies == {
    NoBody,
    [json |-> TRUE, error |-> "conflict", code |-> "", message |-> ""],
    [json |-> TRUE, error |-> "", code |-> "version_mismatch", message |-> "stale"],
    [json |-> TRUE, error |-> "", code |-> "", message |-> "stale"] }

Or2(a, b) == IF a # "" THEN a ELSE b

HttpText(status) ==
    CASE status = 400 -> "HTTP 400"
      [] status = 401 -> "HTTP 401"
      [] status = 404 -> "HTTP 404"
      [] status = 409 -> "HTTP 409"
      [] OTHER -> "HTTP 500"

HttpCode(status) ==
    CASE status = 400 -> "http_400"
      [] status = 401 -> "http_401"
      [] status = 404 -> "http_404"
      [] status = 409 -> "http_409"
      [] OTHER -> "http_500"

parseErrorResponse(status, body) ==
    IF body.json
    THEN [code |-> Or2(body.error, body.code),
          message |-> Or2(body.message, Or2(body.error, "{}")),
          status |-> status]
    ELSE [code |-> "", message |-> HttpText(status), status |-> status]

NoError == [code |-> "", message |-> ""]

updateVaultError(status, body) ==
    LET err == parseErrorResponse(status, body)
    IN  IF status = 409
        THEN [code |-> Or2(err.code, "conflict"),
              message |-> Or2(err.message, "Conflict updating vault")]
        ELSE [code |-> Or2(err.code, HttpCode(err.status)),
              message |-> Or2(err.message, "Failed to update vault")]

\* A bug: the error without the `http_${status}` code.
createSessionError_NoFallback(status, body) ==
    LET err == parseErrorResponse(status, body)
    IN  [code |-> err.code,
         message |-> Or2(err.message, "Failed to create session")]

\* The error createSessionForEmail throws for a response that is not ok.
createSessionError(status, body) ==
    LET err == parseErrorResponse(status, body)
    IN  [code |-> Or2(err.code, HttpCode(err.status)),
         message |-> Or2(err.message, "Failed to create session")]

\* fetch rejects with a TypeError; nothing catches it on the way up.
FetchError == [code |-> "", message |-> "Failed to fetch"]

\* What changePassword of api.ts and putVaultWithVersion of the App throw
\* before any fetch when they find no token.
NotAuthenticated == [code |-> "", message |-> "Not authenticated"]
NoActiveSession ==
    [code |-> "", message |-> "No active session. Please login again."]

\* The RangeError of a call with more arguments than the engine takes.
RangeError == [code |-> "", message |-> "Maximum call stack size exceeded"]

\* What lib/crypto.ts throws for every failed decryption.
DecryptError ==
    [code |-> "", message |-> "Failed to decrypt vault. Wrong password?"]

(***************************************************************************)
(* Tasks and their fetches.                                                *)
(***************************************************************************)
\* op, entry and base are history of an entry operation of the Vault
\* component: which it is, the entry or id it was called with, the vault
\* its closure held.
\* text is the encrypted text in hand and got the vault decryptVault
\* returned; harm and thrown are history: what was done to the text, what
\* was thrown inside decryptVault.
\* sess is the session ensureSession / createSessionForEmail returned and,
\* of a logout, the session its headers were made from;
\* tried, puts and seen are history: the endpoints the running
\* createSessionForEmail has posted to, the PUT /vault/ requests the
\* invocation has sent, the status logout got from its fetch.
IdleTask ==
    [kind |-> "none", pc |-> "idle", reload |-> FALSE, withVersion |-> TRUE,
     ver |-> None, mp |-> "", cur |-> "", new |-> "", data |-> <<>>,
     fetched |-> None, putOk |-> FALSE, conflict |-> FALSE,
     err |-> NoError, res |-> "none",
     sess |-> None, tried |-> <<>>, puts |-> 0, seen |-> None,
     text |-> None, got |-> None, harm |-> "none", thrown |-> "none",
     op |-> "none", entry |-> None, base |-> <<>>]

\* A url is the base it was built from and the path.
Url(base, path) == [base |-> base, path |-> path]
NoUrl == Url("", "")

\* auth is the Authorization header (the text after "Bearer "), or none.
\* applied is history: the service has carried out the request.
NoNet ==
    [phase |-> "none", op |-> "none", url |-> NoUrl, auth |-> None,
     pw |-> "", blob |-> None, ver |-> None, cur |-> "", new |-> "",
     status |-> 0, rblob |-> None, rver |-> None, rtoken |-> None,
     rexp |-> Junk, body |-> NoBody, applied |-> FALSE]

Request(op, auth) == [NoNet EXCEPT !.phase = "req", !.op = op, !.auth = auth]

Init ==
    /\ rng = 0
    /\ blobs = <<>>
    /\ engine = [lenient |-> TRUE, offset |-> 0]
    /\ now = 0
    /\ session = NewSession("k0", SessionTTL)
    /\ srvCred = "p1"
    /\ srvVault \in {None, encryptVault(<<>>, "p1")}
    /\ srvVersion = 0
    /\ srvLog = <<>>
    /\ masterPassword = "p1"
    /\ vault = <<>>
    /\ vaultVersion = 0
    /\ task = [t \in Tasks |-> IdleTask]
    /\ net = [t \in Tasks |-> NoNet]

(***************************************************************************)
(* Time passes.                                                            *)
(***************************************************************************)
Tick ==
    /\ now < MaxTime
    /\ now' = now + 1
    /\ UNCHANGED <<rng, blobs,
                   engine, session, srvCred, srvVault, srvVersion, srvLog,
                   masterPassword,
                   vault, vaultVersion, task, net>>

(***************************************************************************)
(* The remote service, by its HTTP contract.  One action per endpoint: it  *)
(* takes the request of a task and leaves the response.                    *)
(***************************************************************************)
Pending(t, op) == net[t].phase = "req" /\ net[t].op = op

Respond(t, status) == [net[t] EXCEPT !.phase = "resp", !.status = status]

\* The error bodies matter to updateVault alone, which reads them.
BodiesFor(t) == IF task[t].kind = "upd" THEN ErrBodies ELSE {NoBody}

\* The service takes a request for a bearer header it can have issued.
ServerAccepts(auth) == IsSome(auth) /\ Val(auth) # "undefined"

\* The token the service issues to the request of task t.
TokenFor(t) == t

ServerSession(t) ==
    /\ Pending(t, "session")
    /\ net' = [net EXCEPT ![t] =
                 IF net[t].pw = srvCred
                 THEN [Respond(t, 200) EXCEPT
                          !.rtoken = Some(TokenFor(t)),
                          !.rexp = Iso(now + SessionTTL),
                          !.applied = TRUE]
                 ELSE Respond(t, 401)]
    /\ UNCHANGED <<rng, blobs,
                   engine, now, session, srvCred, srvVault, srvVersion, srvLog,
                   masterPassword, vault, vaultVersion, task>>

ServerGet(t) ==
    /\ Pending(t, "get")
    /\ net' = [net EXCEPT ![t] =
                 IF ServerAccepts(net[t].auth)
                 THEN [Respond(t, 200) EXCEPT !.rblob = srvVault,
                                              !.rver = Some(srvVersion)]
                 ELSE Respond(t, 401)]
    /\ UNCHANGED <<rng, blobs,
                   engine, now, session, srvCred, srvVault, srvVersion, srvLog,
                   masterPassword, vault, vaultVersion, task>>

\* The expectedVersion the caller of the update holds for it: the version
\* its closure captured, or none when it passes none.
expectedVersion(t) == IF task[t].withVersion THEN task[t].ver ELSE None

PutConflicts(t) == IsSome(net[t].ver) /\ Val(net[t].ver) # srvVersion

ServerPut(t) ==
    /\ Pending(t, "put")
    /\ IF ~ServerAccepts(net[t].auth)
       THEN /\ net' = [net EXCEPT ![t] = Respond(t, 401)]
            /\ UNCHANGED <<srvVault, srvVersion, srvLog>>
       ELSE IF PutConflicts(t)
       THEN /\ \E b \in BodiesFor(t) :
                 net' = [net EXCEPT ![t] = [Respond(t, 409) EXCEPT !.body = b]]
            /\ UNCHANGED <<srvVault, srvVersion, srvLog>>
       ELSE /\ srvVault' = net[t].blob
            /\ srvVersion' = srvVersion + 1
            /\ srvLog' = Append(srvLog, [by |-> t, exp |-> expectedVersion(t)])
            /\ net' = [net EXCEPT ![t] =
                         [Respond(t, 200) EXCEPT !.rver = Some(srvVersion + 1),
                                                 !.applied = TRUE]]
    /\ UNCHANGED <<rng, blobs,
                   engine, now, session, srvCred, masterPassword, vault,
                   vaultVersion, task>>

ServerChange(t) ==
    /\ Pending(t, "change")
    /\ IF ServerAccepts(net[t].auth) /\ net[t].cur = srvCred
       THEN /\ srvCred' = net[t].new
            /\ net' = [net EXCEPT ![t] =
                         [Respond(t, 200) EXCEPT !.applied = TRUE]]
       ELSE /\ net' = [net EXCEPT ![t] = Respond(t, 401)]
            /\ UNCHANGED srvCred
    /\ UNCHANGED <<rng, blobs,
                   engine, now, session, srvVault, srvVersion, srvLog, masterPassword,
                   vault, vaultVersion, task>>

\* The service fails (500) without touching its state.
ServerError(t) ==
    /\ net[t].phase = "req"
    /\ \E b \in BodiesFor(t) :
         net' = [net EXCEPT ![t] = [Respond(t, 500) EXCEPT !.body = b]]
    /\ UNCHANGED <<rng, blobs,
                   engine, now, session, srvCred, srvVault, srvVersion, srvLog,
                   masterPassword, vault, vaultVersion, task>>

\* fetch rejects: the request never arrived, or its response was lost.
TransportFailure(t) ==
    /\ net[t].phase = "req" \/ (net[t].phase = "resp" /\ net[t].status # 0)
    /\ net' = [net EXCEPT ![t] = [NoNet EXCEPT !.phase = "resp",
                                               !.op = net[t].op,
                                               !.url = net[t].url,
                                               !.applied = net[t].applied]]
    /\ UNCHANGED <<rng, blobs,
                   engine, now, session, srvCred, srvVault, srvVersion, srvLog,
                   masterPassword, vault, vaultVersion, task>>

ServerLogout(t) ==
    /\ Pending(t, "logout")
    /\ net' = [net EXCEPT ![t] = Respond(t, 200)]
    /\ UNCHANGED <<rng, blobs,
                   engine, now, session, srvCred, srvVault, srvVersion, srvLog,
                   masterPassword, vault, vaultVersion, task>>

Server ==
    \E t \in Tasks :
        \/ ServerSession(t)
        \/ ServerLogout(t)
        \/ ServerGet(t)
        \/ ServerPut(t)
        \/ ServerChange(t)
        \/ ServerError(t)
        \/ TransportFailure(t)

(***************************************************************************)
(* The client.  Started(t, kind) is the invocation as its closure sees it; *)
(* Finished(t, res) is the invocation after its handler returned or its    *)
(* catch block ran.                                                        *)
(***************************************************************************)
Started(kind) ==
    [IdleTask EXCEPT !.kind = kind, !.mp = masterPassword,
                     !.ver = Some(vaultVersion)]

Finished(t, res) ==
    [IdleTask EXCEPT !.kind = task[t].kind, !.pc = "done", !.res = res,
                     !.putOk = task[t].putOk, !.conflict = task[t].conflict,
                     !.puts = task[t].puts]

Failed(t, err) == [Finished(t, "error") EXCEPT !.err = err]

Awaiting(t, pc) == task[t].pc = pc /\ net[t].phase = "resp"

\* res.status === 409 and res.ok of a fetch response.
isConflict(status) == status = 409

\* A bug: a handler without its check of res.ok.
resOk_NoCheck(status) == TRUE

resOk(status) == status = 200

\* The urls of createSessionForEmail.
API_BASE == "/api/v1"
rootBase == ""

\* tryPostJson(url, payload) of createSessionForEmail; a master password
\* that is empty is left out of the payload.
tryPostJson(url, pw) ==
    [Request("session", None) EXCEPT !.url = url, !.pw = pw]

firstEndpoint == Url(API_BASE, "/auth/session")

\* A bug: the unversioned session endpoint tried before the legacy one.
afterNotFound_Reordered(url) ==
    CASE url = Url(API_BASE, "/auth/session") ->
            Some(Url(rootBase, "/auth/session"))
      [] url = Url(rootBase, "/auth/session") ->
            Some(Url(API_BASE, "/auth/login"))
      [] url = Url(API_BASE, "/auth/login") ->
            Some(Url(rootBase, "/auth/login"))
      [] OTHER -> None

\* The url createSessionForEmail posts to after a 404 from url, if any.
afterNotFound(url) ==
    CASE url = Url(API_BASE, "/auth/session") ->
            Some(Url(API_BASE, "/auth/login"))
      [] url = Url(API_BASE, "/auth/login") ->
            Some(Url(rootBase, "/auth/session"))
      [] url = Url(rootBase, "/auth/session") ->
            Some(Url(rootBase, "/auth/login"))
      [] OTHER -> None

\* !s || isSessionExpired(s) of ensureSession
needsSession == ~IsSome(loadSession) \/ isSessionExpired(Val(loadSession))

\* ensureSession(email, pw): the stored session if it is there and not
\* expired, and else the first request of createSessionForEmail.
ensureSessionPc == IF needsSession THEN "sess" ELSE "hdr"

\* A bug: an ensureSession that authenticates anew on every call.
ensureSessionNet_Always(pw) == tryPostJson(firstEndpoint, pw)

ensureSessionNet(pw) ==
    IF needsSession THEN tryPostJson(firstEndpoint, pw) ELSE NoNet

\* The invocation t once it has called ensureSession.
ensureSessionTask(t) ==
    [t EXCEPT !.pc = ensureSessionPc,
              !.sess = IF needsSession THEN None ELSE loadSession,
              !.tried = IF needsSession THEN <<firstEndpoint>> ELSE <<>>]

\* A bug: the PUT of putVaultWithVersion without its vault_version.
putVaultWithVersionRequest_NoVersion(t, blob) ==
    [Request("put", Some(TemplateText(getSessionToken))) EXCEPT !.blob = blob]

\* The body of the PUT of putVaultWithVersion.
putVaultWithVersionRequest(t, blob) ==
    [Request("put", Some(TemplateText(getSessionToken))) EXCEPT
        !.blob = blob, !.ver = task[t].ver]

\* A bug: putVaultWithVersion sending its PUT again after a 409.
afterConflictNet_Resend(t) == putVaultWithVersionRequest(t, net[t].blob)

\* The 409 branch of putVaultWithVersion: getVault(email, masterPassword),
\* to the first fetch of its ensureSession if there is one.
afterConflictNet(t) == ensureSessionNet(task[t].mp)

\* The body of the PUT of updateVault: the version only if it is a number.
updateVaultRequest(t) ==
    [Request("put", authHeadersIfAvailable) EXCEPT
        !.blob = encryptVault(task[t].data, task[t].mp),
        !.ver = IF task[t].withVersion THEN task[t].ver ELSE None]

\* handleAddPassword, to its first await.
AddClick(t) ==
    /\ task[t].pc = "idle"
    /\ vault' = Append(vault, t)
    /\ task' = [task EXCEPT ![t] =
                  [Started("add") EXCEPT !.pc = "enc",
                                         !.data = Append(vault, t)]]
    /\ UNCHANGED <<rng, blobs,
                   engine, now, session, srvCred, srvVault, srvVersion, srvLog,
                   masterPassword, vaultVersion, net>>

\* handleAddPassword after the encryption: putVaultWithVersion to its fetch.
AddSend(t) ==
    /\ task[t].pc = "enc"
    /\ IF ~Falsy(getSessionToken)
       THEN /\ net' = [net EXCEPT ![t] = putVaultWithVersionRequest(
                         t, encryptVault(task[t].data, task[t].mp))]
            /\ task' = [task EXCEPT ![t].pc = "put", ![t].puts = @ + 1]
       ELSE /\ task' = [task EXCEPT ![t] = Failed(t, NoActiveSession)]
            /\ UNCHANGED net
    /\ UNCHANGED <<rng, blobs,
                   engine, now, session, srvCred, srvVault, srvVersion, srvLog,
                   masterPassword, vault, vaultVersion>>

\* handleChangePassword, to the first await of getVault.
RotStart(t, cur, new) ==
    /\ task[t].pc = "idle"
    /\ IF cur = "" \/ new = ""
       THEN /\ task' = [task EXCEPT ![t] =
                          [IdleTask EXCEPT !.kind = "rot", !.pc = "done",
                                           !.res = "rejected"]]
            /\ UNCHANGED net
       ELSE /\ task' = [task EXCEPT ![t] =
                          ensureSessionTask(
                             [Started("rot") EXCEPT !.cur = cur, !.new = new])]
            /\ net' = [net EXCEPT ![t] = ensureSessionNet(cur)]
    /\ UNCHANGED <<rng, blobs,
                   engine, now, session, srvCred, srvVault, srvVersion, srvLog,
                   masterPassword, vault, vaultVersion>>

\* saveVault of the Vault component: encrypt, then updateVault to the await
\* of ensureSession.  The component passes no version; a caller of the
\* exported updateVault may pass the version it holds.
UpdStart(t, withVersion) ==
    /\ task[t].pc = "idle"
    /\ task' = [task EXCEPT ![t] =
                  ensureSessionTask(
                     [Started("upd") EXCEPT !.data = Append(vault, t),
                                            !.withVersion = withVersion])]
    /\ net' = [net EXCEPT ![t] = ensureSessionNet(masterPassword)]
    /\ UNCHANGED <<rng, blobs,
                   engine, now, session, srvCred, srvVault, srvVersion, srvLog,
                   masterPassword, vault, vaultVersion>>

\* createSessionForEmail after a fetch: the next endpoint on a 404 that
\* has one, the error of a response that is not ok, and else the session
\* of the response, normalized, saved and returned: to ensureSession, or
\* to login, which returns it.
SessResp(t) ==
    /\ Awaiting(t, "sess")
    /\ LET r == net[t]
           info == SessionInfo(r.rtoken, normalizeExpiresToISO(r.rexp))
       IN  IF r.status = 0
           THEN /\ task' = [task EXCEPT ![t] = Failed(t, FetchError)]
                /\ net' = [net EXCEPT ![t] = NoNet]
                /\ UNCHANGED session
           ELSE IF r.status = 404 /\ IsSome(afterNotFound(r.url))
           THEN /\ task' = [task EXCEPT ![t].tried =
                               Append(@, Val(afterNotFound(r.url)))]
                /\ net' = [net EXCEPT ![t] =
                             tryPostJson(Val(afterNotFound(r.url)), r.pw)]
                /\ UNCHANGED session
           ELSE IF ~resOk(r.status)
           THEN /\ task' = [task EXCEPT ![t] =
                               Failed(t, createSessionError(r.status, r.body))]
                /\ net' = [net EXCEPT ![t] = NoNet]
                /\ UNCHANGED session
           ELSE /\ session' = saveSession(info)
                /\ task' = [task EXCEPT ![t] =
                               IF task[t].kind = "login"
                               THEN [Finished(t, "ok") EXCEPT
                                        !.sess = Some(info)]
                               ELSE [task[t] EXCEPT !.pc = "hdr",
                                                    !.sess = Some(info),
                                                    !.tried = <<>>]]
                /\ net' = [net EXCEPT ![t] = NoNet]
    /\ UNCHANGED <<rng, blobs,
                   engine, now, srvCred, srvVault, srvVersion, srvLog, masterPassword,
                   vault, vaultVersion>>

\* getVault / updateVault after ensureSession: the headers and the fetch.
HdrSend(t) ==
    /\ task[t].pc = "hdr"
    /\ IF task[t].kind = "upd"
       THEN /\ net' = [net EXCEPT ![t] = updateVaultRequest(t)]
            /\ task' = [task EXCEPT ![t].pc = "put", ![t].sess = None,
                                    ![t].puts = @ + 1]
       ELSE /\ net' = [net EXCEPT ![t] = Request("get", authHeadersIfAvailable)]
            /\ task' = [task EXCEPT ![t].pc = "get", ![t].sess = None]
    /\ UNCHANGED <<rng, blobs,
                   engine, now, session, srvCred, srvVault, srvVersion, srvLog,
                   masterPassword, vault, vaultVersion>>

\* changePassword of api.ts, to its fetch: it needs the Authorization header.
changePasswordNet(cur, new) ==
    IF IsSome(authHeadersIfAvailable)
    THEN [Request("change", authHeadersIfAvailable) EXCEPT
             !.cur = cur, !.new = new]
    ELSE NoNet

\* setVaultVersion((v) => v + 1)
nextLocalVersion(v) == v + 1

\* A bug: handleChangePassword without its return on putResult.conflict.
afterPut_NoAbort(kind, conflict) ==
    IF kind = "rot" THEN "changePassword" ELSE "return"

\* What the caller does once putVaultWithVersion has returned:
\* handleChangePassword returns on a conflict and else calls changePassword,
\* handleAddPassword is done either way.
afterPut(kind, conflict) ==
    IF kind = "rot" /\ ~conflict THEN "changePassword" ELSE "return"

\* The task and its fetch after putVaultWithVersion has returned.
ReturnedTask(t, conflict) ==
    IF afterPut(task[t].kind, conflict) = "changePassword"
    THEN IF IsSome(authHeadersIfAvailable)
         THEN [task[t] EXCEPT !.pc = "chg", !.putOk = ~conflict,
                              !.conflict = conflict]
         ELSE [Failed(t, NotAuthenticated) EXCEPT !.putOk = ~conflict,
                                                  !.conflict = conflict]
    ELSE [Finished(t, IF conflict THEN "conflict" ELSE "ok")
            EXCEPT !.putOk = ~conflict, !.conflict = conflict]

ReturnedNet(t, conflict) ==
    IF afterPut(task[t].kind, conflict) = "changePassword"
    THEN changePasswordNet(task[t].cur, task[t].new)
    ELSE NoNet

\* getVault after its fetch, and what its caller does with the result:
\* handleChangePassword decrypts, re-encrypts and calls putVaultWithVersion;
\* the 409 branch of putVaultWithVersion replaces the local vault and
\* returns the conflict to its caller.
GetResp(t) ==
    /\ Awaiting(t, "get")
    /\ LET r == net[t]
           k == IF task[t].reload THEN task[t].mp ELSE task[t].cur
           readable == ~IsSome(r.rblob) \/ CanDecrypt(r.rblob, k)
           dec == IF IsSome(r.rblob) THEN decryptVault(r.rblob, k) ELSE <<>>
       IN  IF r.status # 200
           THEN /\ task' = [task EXCEPT ![t] = Finished(t, "error")]
                /\ net' = [net EXCEPT ![t] = NoNet]
                /\ UNCHANGED <<vault, vaultVersion>>
           ELSE IF ~readable
           THEN /\ task' = [task EXCEPT ![t] = Failed(t, DecryptError)]
                /\ net' = [net EXCEPT ![t] = NoNet]
                /\ UNCHANGED <<vault, vaultVersion>>
           ELSE IF task[t].reload
           THEN /\ task' = [task EXCEPT ![t] = ReturnedTask(t, TRUE)]
                /\ net' = [net EXCEPT ![t] = ReturnedNet(t, TRUE)]
                /\ vault' = IF IsSome(r.rblob) THEN dec ELSE vault
                /\ vaultVersion' = IF IsSome(r.rblob) /\ IsSome(r.rver)
                                   THEN Val(r.rver) ELSE vaultVersion
           ELSE /\ IF ~Falsy(getSessionToken)
                   THEN /\ task' = [task EXCEPT ![t].pc = "put",
                                               ![t].fetched = r.rver,
                                               ![t].puts = @ + 1]
                        /\ net' = [net EXCEPT ![t] = putVaultWithVersionRequest(
                                     t, encryptVault(dec, task[t].new))]
                   ELSE /\ task' = [task EXCEPT ![t] =
                                      Failed(t, NoActiveSession)]
                        /\ net' = [net EXCEPT ![t] = NoNet]
                /\ UNCHANGED <<vault, vaultVersion>>
    /\ UNCHANGED <<rng, blobs,
                   engine, now, session, srvCred, srvVault, srvVersion, srvLog,
                   masterPassword>>

\* putVaultWithVersion after its fetch, and on success what its caller does
\* next.  A rejected fetch (status 0) throws before any status is read.
PutResp(t) ==
    /\ Awaiting(t, "put")
    /\ task[t].kind \in {"add", "rot"}
    /\ IF net[t].status # 0 /\ isConflict(net[t].status)
       THEN /\ task' = [task EXCEPT ![t] =
                          ensureSessionTask([task[t] EXCEPT
                                               !.reload = TRUE,
                                               !.conflict = TRUE])]
            /\ net' = [net EXCEPT ![t] = afterConflictNet(t)]
            /\ UNCHANGED vaultVersion
       ELSE IF net[t].status = 0 \/ ~resOk(net[t].status)
       THEN /\ task' = [task EXCEPT ![t] = Finished(t, "error")]
            /\ net' = [net EXCEPT ![t] = NoNet]
            /\ UNCHANGED vaultVersion
       ELSE /\ vaultVersion' = nextLocalVersion(vaultVersion)
            /\ task' = [task EXCEPT ![t] = ReturnedTask(t, FALSE)]
            /\ net' = [net EXCEPT ![t] = ReturnedNet(t, FALSE)]
    /\ UNCHANGED <<rng, blobs,
                   engine, now, session, srvCred, srvVault, srvVersion, srvLog,
                   masterPassword, vault>>

\* updateVault after its fetch, and saveVault after updateVault.
UpdResp(t) ==
    /\ Awaiting(t, "put")
    /\ task[t].kind = "upd"
    /\ IF net[t].status = 200
       THEN /\ vault' = task[t].data
            /\ task' = [task EXCEPT ![t] =
                          [Finished(t, "ok") EXCEPT !.putOk = TRUE]]
       ELSE /\ task' = [task EXCEPT ![t] =
                  [Finished(t, "error") EXCEPT
                     !.conflict = (net[t].status = 409),
                     !.err = IF net[t].status = 0
                             THEN FetchError
                             ELSE updateVaultError(net[t].status, net[t].body)]]
            /\ UNCHANGED vault
    /\ net' = [net EXCEPT ![t] = NoNet]
    /\ UNCHANGED <<rng, blobs,
                   engine, now, session, srvCred, srvVault, srvVersion, srvLog,
                   masterPassword, vaultVersion>>

\* handleChangePassword of the Settings component, to the fetch of
\* changePassword: no vault is fetched or uploaded.
SettingsStart(t, cur, new) ==
    /\ task[t].pc = "idle"
    /\ IF new = ""
       THEN /\ task' = [task EXCEPT ![t] =
                          [IdleTask EXCEPT !.kind = "set", !.pc = "done",
                                           !.res = "rejected"]]
            /\ UNCHANGED net
       ELSE IF IsSome(authHeadersIfAvailable)
       THEN /\ task' = [task EXCEPT ![t] =
                          [Started("set") EXCEPT !.pc = "chg", !.cur = cur,
                                                 !.new = new]]
            /\ net' = [net EXCEPT ![t] = changePasswordNet(cur, new)]
       ELSE /\ task' = [task EXCEPT ![t] =
                          [IdleTask EXCEPT !.kind = "set", !.pc = "done",
                                           !.res = "error",
                                           !.err = NotAuthenticated]]
            /\ UNCHANGED net
    /\ UNCHANGED <<rng, blobs,
                   engine, now, session, srvCred, srvVault, srvVersion, srvLog,
                   masterPassword, vault, vaultVersion>>

\* changePassword after its fetch, and what its caller does next: the App
\* component switches its master password, the Settings component arms the
\* logout timer.
ChangeResp(t) ==
    /\ Awaiting(t, "chg")
    /\ IF ~resOk(net[t].status)
       THEN /\ task' = [task EXCEPT ![t] = Finished(t, "error")]
            /\ UNCHANGED masterPassword
       ELSE IF task[t].kind = "rot"
       THEN /\ task' = [task EXCEPT ![t] = Finished(t, "ok")]
            /\ masterPassword' = task[t].new
       ELSE /\ task' = [task EXCEPT ![t].pc = "timer"]
            /\ UNCHANGED masterPassword
    /\ net' = [net EXCEPT ![t] = NoNet]
    /\ UNCHANGED <<rng, blobs,
                   engine, now, session, srvCred, srvVault, srvVersion, srvLog, vault,
                   vaultVersion>>

\* The logout timer of the Settings component fires: logout of api.ts, to
\* its fetch.
LogoutStart(t) ==
    /\ task[t].pc = "timer"
    /\ IF IsSome(authHeadersIfAvailable)
       THEN /\ task' = [task EXCEPT ![t].pc = "out",
                                    ![t].sess = loadSession]
            /\ net' = [net EXCEPT ![t] =
                         Request("logout", authHeadersIfAvailable)]
            /\ UNCHANGED session
       ELSE /\ task' = [task EXCEPT ![t] = Finished(t, "ok")]
            /\ session' = NoSession
            /\ UNCHANGED net
    /\ UNCHANGED <<rng, blobs,
                   engine, now, srvCred, srvVault, srvVersion, srvLog, masterPassword,
                   vault, vaultVersion>>

\* A bug: a logout that clears the session only when the service agreed.
sessionAfterLogout_OnSuccess(status) ==
    IF status = 200 THEN NoSession ELSE session

\* finally { clearSession() } of logout
sessionAfterLogout(status) == NoSession

\* logout after its fetch: whatever the outcome, the session is cleared.
LogoutResp(t) ==
    /\ Awaiting(t, "out")
    /\ task' = [task EXCEPT ![t] =
                  [Finished(t, "ok") EXCEPT !.seen = Some(net[t].status)]]
    /\ net' = [net EXCEPT ![t] = NoNet]
    /\ session' = sessionAfterLogout(net[t].status)
    /\ UNCHANGED <<rng, blobs,
                   engine, now, srvCred, srvVault, srvVersion, srvLog, masterPassword,
                   vault, vaultVersion>>

Client ==
    \E t \in Tasks :
        \/ AddClick(t)
        \/ AddSend(t)
        \/ \E cur \in Inputs, new \in Inputs : RotStart(t, cur, new)
        \/ \E b \in BOOLEAN : UpdStart(t, b)
        \/ \E cur \in Inputs, new \in Inputs : SettingsStart(t, cur, new)
        \/ SessResp(t)
        \/ HdrSend(t)
        \/ GetResp(t)
        \/ PutResp(t)
        \/ UpdResp(t)
        \/ ChangeResp(t)
        \/ LogoutStart(t)
        \/ LogoutResp(t)

(***************************************************************************)
(* Steps of one task, as the properties below name them.                   *)
(***************************************************************************)
\* The task handles the response of its PUT (putVaultWithVersion callers).
HandlesPut(t) ==
    /\ Awaiting(t, "put")
    /\ task[t].kind \in {"add", "rot"}
    /\ task'[t] # task[t]

\* The service answers the PUT of the task with a success or a conflict.
AnswersPut(t) ==
    /\ Pending(t, "put")
    /\ net'[t].phase = "resp"
    /\ net'[t].status \in {200, 409}

Accepted(t) == \E i \in DOMAIN srvLog : srvLog[i].by = t

(***************************************************************************)
(* C1.  In a rotation (handleChangePassword) the request to                *)
(* /auth/change-password is issued only by the step that handles a         *)
(* successful (200) response to the PUT /vault/ of that same rotation,     *)
(* whose write the service accepted: never before or without it.           *)
(***************************************************************************)
C1_ChangeOnlyAfterUpload ==
    [][\A t \in Tasks :
         (task'[t].kind = "rot" /\ net'[t].op = "change" /\ net[t].op # "change")
         => /\ Awaiting(t, "put")
            /\ net[t].op = "put"
            /\ net[t].status = 200
            /\ Accepted(t)]_vars

C1_Witness ==
    \E t \in Tasks : task[t].kind = "rot" /\ Pending(t, "change") /\ Accepted(t)

(***************************************************************************)
(* C2.  A rotation whose PUT was answered 409 is marked as conflicted,     *)
(* never has a change-password request, and none of its steps changes the  *)
(* service's credential or the client's master password.                   *)
(***************************************************************************)
C2_ConflictAbortsRotation ==
    [][\A t \in Tasks :
         /\ (HandlesPut(t) /\ task[t].kind = "rot" /\ net[t].status = 409)
            => task'[t].conflict
         /\ (task'[t].kind = "rot" /\ task'[t].conflict)
            => /\ net'[t].op # "change"
               /\ task'[t].pc # "chg"
               /\ (task'[t] # task[t] \/ net'[t] # net[t])
                  => (srvCred' = srvCred /\ masterPassword' = masterPassword)]_vars

C2_Witness ==
    \E t \in Tasks :
        /\ task[t].kind = "rot" /\ task[t].pc = "done"
        /\ task[t].res = "conflict" /\ task[t].conflict
        /\ srvCred = "p1" /\ masterPassword = "p1"

(***************************************************************************)
(* C3.  Whenever the service switches the login credential to a new        *)
(* password, the ciphertext it stores is decryptable with that password.   *)
(***************************************************************************)
C3_VaultFollowsCredential ==
    [][srvCred' # srvCred
       => (IsSome(srvVault') => CanDecrypt(srvVault', srvCred'))]_vars

(***************************************************************************)
(* C4.  An update whose caller holds expectedVersion n is accepted only    *)
(* when the stored version is n, and then the stored version becomes n+1;  *)
(* when the stored version is no longer n the update is answered 409, the  *)
(* stored ciphertext and version stay as they are, and the caller ends     *)
(* with a conflict.                                                        *)
(***************************************************************************)
C4_VersionMonotonicity ==
    [][\A t \in Tasks :
         /\ (AnswersPut(t) /\ IsSome(expectedVersion(t)))
            => IF Val(expectedVersion(t)) = srvVersion
               THEN /\ net'[t].status = 200
                    /\ srvVersion' = Val(expectedVersion(t)) + 1
                    /\ srvVault' = net[t].blob
               ELSE /\ net'[t].status = 409
                    /\ srvVault' = srvVault
                    /\ srvVersion' = srvVersion
         /\ (Awaiting(t, "put") /\ net[t].status = 409 /\ task'[t] # task[t])
            => task'[t].conflict]_vars

C4_Witness ==
    \E t1 \in Tasks, t2 \in Tasks :
        /\ srvLog = <<[by |-> t1, exp |-> Some(0)]>>
        /\ srvVersion = 1
        /\ task[t2].ver = Some(0) /\ task[t2].withVersion
        /\ task[t2].conflict

(***************************************************************************)
(* C5.  Of the updates whose callers hold the same expectedVersion at most *)
(* one is accepted by the service; an update answered 409 was not applied. *)
(***************************************************************************)
C5_OneWinnerPerVersion ==
    /\ \A i \in DOMAIN srvLog, j \in DOMAIN srvLog :
         (i < j /\ IsSome(srvLog[i].exp)) => srvLog[i].exp # srvLog[j].exp
    /\ \A t \in Tasks :
         (net[t].op = "put" /\ net[t].phase = "resp" /\ net[t].status = 409)
         => ~Accepted(t)

C5_Witness ==
    \E t1 \in Tasks, t2 \in Tasks :
        /\ net[t1].op = "put" /\ net[t1].phase = "resp" /\ net[t1].status = 200
        /\ net[t2].op = "put" /\ net[t2].phase = "resp" /\ net[t2].status = 409
        /\ IsSome(net[t1].ver) /\ net[t1].ver = net[t2].ver

(***************************************************************************)
(* C6.  Every PUT /vault/ request the client sends carries a               *)
(* vault_version, the version its caller last observed.                    *)
(***************************************************************************)
C6_EveryWriteVersioned ==
    \A t \in Tasks :
        Pending(t, "put") => (IsSome(net[t].ver) /\ net[t].ver = task[t].ver)

(***************************************************************************)
(* C7.  The PUT of a rotation carries the version that the GET of step 1   *)
(* of that rotation returned.                                              *)
(***************************************************************************)
C7_UploadsFetchedVersion ==
    \A t \in Tasks :
        (task[t].kind = "rot" /\ Pending(t, "put"))
        => net[t].ver = task[t].fetched

(***************************************************************************)
(* C8.  When the caller handles the success of an update it sent with      *)
(* expectedVersion n, its local version becomes the vault_version the      *)
(* response echoes, or n+1 when the response echoes none.                  *)
(***************************************************************************)
C8_LocalVersionAfterSuccess ==
    [][\A t \in Tasks :
         (HandlesPut(t) /\ net[t].status = 200)
         => vaultVersion' = IF IsSome(net[t].rver) THEN Val(net[t].rver)
                            ELSE Val(net[t].ver) + 1]_vars

(***************************************************************************)
(* C9 as claimed.  The local version grows only in the step that handles   *)
(* the success of an update.                                               *)
(***************************************************************************)
C9_OnlySuccessAdvances ==
    [][vaultVersion' > vaultVersion
       => \E t \in Tasks : HandlesPut(t) /\ net[t].status = 200]_vars

(***************************************************************************)
(* C9 as amended.  Handling an update that failed with a transport error,  *)
(* a non-2xx status or a conflict leaves the local version as it is; the   *)
(* local version changes only when a successful update is handled (by one) *)
(* and when the refetch after a conflict is handled, which sets it to the  *)
(* version the refetch returned if the refetched vault is there and        *)
(* decrypts.                                                               *)
(***************************************************************************)
C9_FailedUpdateKeepsVersion ==
    [][/\ \A t \in Tasks :
            /\ (HandlesPut(t) /\ net[t].status # 200)
               => vaultVersion' = vaultVersion
            /\ (Awaiting(t, "put") /\ task[t].kind = "upd" /\ task'[t] # task[t])
               => vaultVersion' = vaultVersion
       /\ vaultVersion' # vaultVersion
          => \E t \in Tasks :
               \/ HandlesPut(t) /\ net[t].status = 200
                    /\ vaultVersion' = vaultVersion + 1
               \/ /\ Awaiting(t, "get") /\ task[t].reload /\ task[t].conflict
                  /\ task'[t] # task[t]
                  /\ net[t].status = 200 /\ IsSome(net[t].rblob)
                  /\ vaultVersion' = Val(net[t].rver)]_vars

C9_Witness ==
    \E t1 \in Tasks, t2 \in Tasks :
        /\ task[t1].pc = "done" /\ task[t1].res = "error" /\ ~task[t1].putOk
        /\ task[t2].pc = "done" /\ task[t2].res = "conflict"
        /\ task[t2].kind = "add"
        /\ vaultVersion = 1

(***************************************************************************)
(* C10.  The error updateVault throws for a 409 differs from every error   *)
(* it throws for another failed status, and no error it throws for another *)
(* status has the code of a conflict.                                      *)
(***************************************************************************)
OtherFailures == {400, 401, 500}

C10_ConflictDistinguishable ==
    \A t \in Tasks :
        (task[t].kind = "upd" /\ task[t].pc = "done" /\ task[t].res = "error"
           /\ task[t].err # NoError)
        => IF task[t].conflict
           THEN \A st \in OtherFailures, b \in ErrBodies :
                   updateVaultError(st, b) # task[t].err
           ELSE task[t].err.code # "conflict"

(***************************************************************************)
(* C11.  When the vault a rotation fetched does not decrypt with the       *)
(* current password it was given, the step that handles the fetch ends the *)
(* rotation with an error: it sends nothing, and the service's vault,      *)
(* version and credential stay as they are; a rotation ended that way has  *)
(* sent no PUT, has no request in flight and no write accepted.            *)
(***************************************************************************)
DecryptFails(t) ==
    /\ Awaiting(t, "get")
    /\ task[t].kind = "rot" /\ ~task[t].reload
    /\ net[t].status = 200
    /\ IsSome(net[t].rblob)
    /\ Val(net[t].rblob).key # task[t].cur
    /\ task'[t] # task[t]

C11_DecryptFailureEndsRotation ==
    /\ [][\A t \in Tasks :
            DecryptFails(t)
            => /\ task'[t].pc = "done" /\ task'[t].res = "error"
               /\ task'[t].puts = 0
               /\ net'[t] = NoNet
               /\ srvVault' = srvVault
               /\ srvVersion' = srvVersion
               /\ srvCred' = srvCred]_vars
    /\ [](\A t \in Tasks :
            (task[t].kind = "rot" /\ task[t].pc = "done"
               /\ task[t].err = DecryptError /\ ~task[t].conflict)
            => (task[t].puts = 0 /\ net[t] = NoNet /\ ~Accepted(t)))

C11_Witness ==
    \E t \in Tasks :
        /\ task[t].kind = "rot" /\ task[t].pc = "done"
        /\ task[t].res = "error" /\ task[t].err = DecryptError
        /\ ~task[t].conflict
        /\ srvVault = encryptVault(<<>>, "p1")
        /\ srvVersion = 0 /\ srvCred = "p1"

(***************************************************************************)
(* The step in which a rotation handles the failure of its                 *)
(* change-password call; the rotation got there past a successful upload.  *)
(***************************************************************************)
ChangeFails(t) ==
    /\ Awaiting(t, "chg")
    /\ task[t].kind = "rot"
    /\ net[t].status # 200
    /\ task'[t] # task[t]

Alone(t) == \A u \in Tasks \ {t} : task[u].pc = "idle"

(***************************************************************************)
(* C12 as claimed.  When a rotation running alone handles the failure of   *)
(* its change-password call, the service's vault is under the new          *)
(* password, the service has not switched the credential, and the client   *)
(* holds the master password it held before.                               *)
(***************************************************************************)
C12_CredentialStaysOld ==
    [][\A t \in Tasks :
         (ChangeFails(t) /\ Alone(t))
         => /\ IsSome(srvVault') /\ Val(srvVault').key = task[t].new
            /\ ~net[t].applied
            /\ masterPassword' = task[t].mp]_vars

(***************************************************************************)
(* C12 as amended.  Handling the failure ends the rotation with an error   *)
(* and rolls nothing back: it sends nothing and leaves the service's       *)
(* vault, version and credential and the client's master password as they  *)
(* are, and the upload of the rotation stays accepted.  The service has    *)
(* not switched the credential when it answered the call with a failure;   *)
(* it may have switched it when the call was lost in transport.  Running   *)
(* alone, the service's vault is under the new password and the client     *)
(* still holds the old one.                                                *)
(***************************************************************************)
C12_NoRollback ==
    [][\A t \in Tasks :
         ChangeFails(t)
         => /\ task'[t].pc = "done" /\ task'[t].res = "error"
            /\ net'[t] = NoNet
            /\ srvVault' = srvVault
            /\ srvVersion' = srvVersion
            /\ srvCred' = srvCred
            /\ masterPassword' = masterPassword
            /\ Accepted(t)
            /\ net[t].status # 0 => ~net[t].applied
            /\ Alone(t)
               => /\ IsSome(srvVault') /\ Val(srvVault').key = task[t].new
                  /\ masterPassword' = task[t].mp]_vars

C12_Witness ==
    \E t \in Tasks :
        /\ task[t].kind = "rot" /\ task[t].pc = "done"
        /\ task[t].res = "error" /\ task[t].putOk
        /\ srvVault = encryptVault(<<>>, "p2")
        /\ srvCred = "p1" /\ masterPassword = "p1"

(***************************************************************************)
(* The session store and the authentication client on their own: the      *)
(* browser may hold any record under the session key (none, a garbled one, *)
(* one written by this or by an earlier revision of api.ts), the engine    *)
(* may be strict or lenient about dates, and the service may lack          *)
(* endpoints, refuse, or answer with a token or an expiry in another form. *)
(***************************************************************************)
MaxOffset == 1

Engines ==
    {[lenient |-> TRUE, offset |-> o] : o \in 0..MaxOffset}
    \cup {[lenient |-> FALSE, offset |-> 0]}

StoredExpiries == {Iso(0), Iso(SessionTTL), Spaced(SessionTTL), Junk}

StoredRecords ==
    {NoSession, GarbledSession}
    \cup {StoredSession(SessionInfo(tok, e)) :
             tok \in {Some("k0"), None}, e \in StoredExpiries}

AuthInit ==
    /\ rng = 0
    /\ blobs = <<>>
    /\ engine \in Engines
    /\ now = 0
    /\ session \in StoredRecords
    /\ srvCred = "p1"
    /\ srvVault = encryptVault(<<>>, "p1")
    /\ srvVersion = 0
    /\ srvLog = <<>>
    /\ masterPassword = "p1"
    /\ vault = <<>>
    /\ vaultVersion = 0
    /\ task = [t \in Tasks |-> IdleTask]
    /\ net = [t \in Tasks |-> NoNet]

\* The service has no such endpoint.
ServerNotFound(t) ==
    /\ Pending(t, "session")
    /\ \E b \in (IF IsSome(afterNotFound(net[t].url))
                 THEN {NoBody} ELSE ErrBodies) :
         net' = [net EXCEPT ![t] = [Respond(t, 404) EXCEPT !.body = b]]
    /\ UNCHANGED <<rng, blobs,
                   engine, now, session, srvCred, srvVault, srvVersion, srvLog,
                   masterPassword, vault, vaultVersion, task>>

\* The service refuses the credentials, with any error body.
ServerRefuse(t) ==
    /\ Pending(t, "session")
    /\ \E st \in {400, 401}, b \in ErrBodies :
         net' = [net EXCEPT ![t] = [Respond(t, st) EXCEPT !.body = b]]
    /\ UNCHANGED <<rng, blobs,
                   engine, now, session, srvCred, srvVault, srvVersion, srvLog,
                   masterPassword, vault, vaultVersion, task>>

\* The service creates the session and answers without a token, or with
\* an expiry that is not ISO text.
OddAnswers(t) ==
    {[rtoken |-> Some(TokenFor(t)), rexp |-> Spaced(now + SessionTTL)],
     [rtoken |-> Some(TokenFor(t)), rexp |-> Junk],
     [rtoken |-> Some(TokenFor(t)), rexp |-> Empty],
     [rtoken |-> None, rexp |-> Iso(now + SessionTTL)]}

ServerSessionOdd(t) ==
    /\ Pending(t, "session")
    /\ net[t].pw = srvCred
    /\ \E a \in OddAnswers(t) :
         net' = [net EXCEPT ![t] =
                   [Respond(t, 200) EXCEPT !.rtoken = a.rtoken,
                                           !.rexp = a.rexp,
                                           !.applied = TRUE]]
    /\ UNCHANGED <<rng, blobs,
                   engine, now, session, srvCred, srvVault, srvVersion, srvLog,
                   masterPassword, vault, vaultVersion, task>>

AuthServer ==
    \E t \in Tasks :
        \/ ServerSession(t)
        \/ ServerSessionOdd(t)
        \/ ServerNotFound(t)
        \/ ServerRefuse(t)
        \/ ServerLogout(t)
        \/ ServerPut(t)
        \/ ServerChange(t)
        \/ ServerError(t)
        \/ TransportFailure(t)

\* handleLogout of the App component: logout of api.ts to its fetch, not
\* awaited, and the reset of the App state.
HandleLogout(t) ==
    /\ task[t].pc = "idle"
    /\ IF IsSome(authHeadersIfAvailable)
       THEN /\ task' = [task EXCEPT ![t] =
                          [Started("out") EXCEPT !.pc = "out",
                                                 !.sess = loadSession]]
            /\ net' = [net EXCEPT ![t] =
                         Request("logout", authHeadersIfAvailable)]
            /\ UNCHANGED session
       ELSE /\ task' = [task EXCEPT ![t] =
                          [IdleTask EXCEPT !.kind = "out", !.pc = "done",
                                           !.res = "ok"]]
            /\ session' = NoSession
            /\ UNCHANGED net
    /\ vault' = <<>>
    /\ masterPassword' = ""
    /\ vaultVersion' = 0
    /\ UNCHANGED <<rng, blobs,
                   engine, now, srvCred, srvVault, srvVersion, srvLog>>

\* What login of api.ts throws when called without its arguments.
LoginArgsRequired ==
    [code |-> "", message |-> "email and masterPassword required for login"]

\* login(email, pw) of api.ts, to the first fetch of createSessionForEmail.
LoginCall(t, pw) ==
    /\ task[t].pc = "idle"
    /\ IF Falsy(Some(pw))
       THEN /\ task' = [task EXCEPT ![t] =
                          [Failed(t, LoginArgsRequired) EXCEPT
                              !.kind = "login"]]
            /\ UNCHANGED net
       ELSE /\ task' = [task EXCEPT ![t] =
                          [Started("login") EXCEPT
                              !.pc = "sess", !.tried = <<firstEndpoint>>]]
            /\ net' = [net EXCEPT ![t] = tryPostJson(firstEndpoint, pw)]
    /\ UNCHANGED <<rng, blobs,
                   engine, now, session, srvCred, srvVault, srvVersion, srvLog,
                   masterPassword, vault, vaultVersion>>

\* One invocation logs in, adds an entry, saves the vault or changes the
\* password; any invocation may be a logout, so that a logout runs beside
\* it.
Callers == {"t1"}

AuthClient ==
    \E t \in Tasks :
        \/ t \in Callers /\ AddClick(t)
        \/ AddSend(t)
        \/ t \in Callers /\ UpdStart(t, FALSE)
        \/ \E cur \in Passwords : t \in Callers /\ SettingsStart(t, cur, "p2")
        \/ \E pw \in Inputs : t \in Callers /\ LoginCall(t, pw)
        \/ HandleLogout(t)
        \/ SessResp(t)
        \/ HdrSend(t)
        \/ PutResp(t)
        \/ UpdResp(t)
        \/ ChangeResp(t)
        \/ LogoutStart(t)
        \/ LogoutResp(t)

AuthNext ==
    \/ Tick
    \/ AuthServer
    \/ AuthClient

AuthSpec == AuthInit /\ [][AuthNext]_vars

(***************************************************************************)
(* Steps and facts the properties of the session name.                     *)
(***************************************************************************)
\* The task calls ensureSession in this step.
EnsureCall(t) ==
    /\ task[t].pc \notin {"sess", "hdr"}
    /\ task'[t].pc \in {"sess", "hdr"}
    /\ task'[t].kind # "login"

\* The task calls login in this step.
LoginStarts(t) == task[t].pc = "idle" /\ task'[t].kind = "login"

\* The task sends a request in this step.
Sends(t) == net'[t].phase = "req" /\ net'[t] # net[t]

\* A session is stored and the current time is not past its expiry.
StoredAndUnexpired ==
    /\ session.raw = "json"
    /\ IsSome(DateParse(session.expires_at))
    /\ now <= Val(DateParse(session.expires_at))

RequiresToken(t) ==
    \/ task[t].pc = "enc" /\ task'[t] # task[t]
    \/ task[t].pc = "idle" /\ task'[t].kind = "set" /\ task'[t].res # "rejected"

ReadsHeaders(t) == task[t].pc = "hdr" /\ task'[t] # task[t]

TokenOfValidSession ==
    /\ IsSome(authHeadersIfAvailable)
       => /\ StoredAndUnexpired
          /\ Val(authHeadersIfAvailable) = TemplateText(session.token)
    /\ IsSome(getSessionToken)
       => (StoredAndUnexpired /\ getSessionToken = session.token)
    /\ (StoredAndUnexpired /\ IsSome(session.token))
       => (IsSome(authHeadersIfAvailable) /\ IsSome(getSessionToken))

C14_TokenOnlyForValidSession ==
    /\ []TokenOfValidSession
    /\ [][\A t \in Tasks :
            /\ (RequiresToken(t) \/ ReadsHeaders(t))
               => /\ session' = session
                  /\ net'[t].op # "session"
                  /\ Sends(t) => net'[t].auth = authHeadersIfAvailable
            /\ (RequiresToken(t) /\ ~StoredAndUnexpired)
               => (net'[t] = NoNet /\ task'[t].pc = "done")]_vars

C14_Witness ==
    \E t \in Tasks :
        /\ task[t].kind = "set" /\ task[t].pc = "done"
        /\ task[t].res = "error"
        /\ session.raw = "json" /\ ~StoredAndUnexpired
        /\ session.expires_at = Iso(SessionTTL)
        /\ net[t] = NoNet

(***************************************************************************)
(* C15.  The requests of one createSessionForEmail go to                   *)
(* /api/v1/auth/session, /api/v1/auth/login, /auth/session, /auth/login    *)
(* in this order: what it has posted to is always a prefix of that list    *)
(* (so at most four requests), it posts to the next endpoint exactly in    *)
(* the step that handles a 404 from the previous one, with the same        *)
(* payload, and a response that is not a 404 is followed by no further     *)
(* request of it.                                                          *)
(***************************************************************************)
FixedOrder ==
    << [base |-> "/api/v1", path |-> "/auth/session"],
       [base |-> "/api/v1", path |-> "/auth/login"],
       [base |-> "", path |-> "/auth/session"],
       [base |-> "", path |-> "/auth/login"] >>

InCreateSession(t) == task[t].pc = "sess"

TriedInOrder ==
    \A t \in Tasks :
        InCreateSession(t)
        => /\ Len(task[t].tried) \in 1..Len(FixedOrder)
           /\ task[t].tried = SubSeq(FixedOrder, 1, Len(task[t].tried))
           /\ net[t].op = "session"
           /\ net[t].url = task[t].tried[Len(task[t].tried)]

C15_EndpointOrder ==
    /\ []TriedInOrder
    /\ [][\A t \in Tasks :
            /\ (InCreateSession(t) /\ Sends(t))
               => /\ Awaiting(t, "sess")
                  /\ net[t].status = 404
                  /\ net'[t].op = "session"
                  /\ net'[t].pw = net[t].pw
                  /\ task'[t].tried = Append(task[t].tried, net'[t].url)
            /\ (Awaiting(t, "sess") /\ net[t].status = 404
                   /\ Len(task[t].tried) < Len(FixedOrder)
                   /\ task'[t] # task[t])
               => (Sends(t) /\ InCreateSession(t)')
            /\ (Awaiting(t, "sess") /\ task'[t] # task[t]
                   /\ (net[t].status # 404
                          \/ Len(task[t].tried) = Len(FixedOrder)))
               => (~InCreateSession(t)' /\ net'[t].op # "session")]_vars

C15_Witness ==
    \E t \in Tasks :
        /\ InCreateSession(t)
        /\ task[t].tried = FixedOrder
        /\ net[t].phase = "resp" /\ net[t].status = 404

(***************************************************************************)
(* C16.  When the response that ends createSessionForEmail is not a        *)
(* success (a 400, 401 or 500 of any endpoint, or the 404 of the fourth),  *)
(* the call fails with an error that has a message and a code: the error   *)
(* or code field of the response body when the body is JSON and has one,   *)
(* and http_<status> otherwise.                                            *)
(***************************************************************************)
\* The step handles the response that ends createSessionForEmail.
EndsCreateSession(t) ==
    /\ Awaiting(t, "sess")
    /\ net[t].status # 0
    /\ net[t].status = 404 => Len(task[t].tried) = Len(FixedOrder)
    /\ task'[t] # task[t]

ServiceCodes(body) ==
    IF body.json THEN {body.error, body.code} \ {""} ELSE {}

StatusCode(status) ==
    CASE status = 400 -> "http_400"
      [] status = 401 -> "http_401"
      [] status = 404 -> "http_404"
      [] status = 500 -> "http_500"

C16_SessionErrorCode ==
    [][\A t \in Tasks :
         (EndsCreateSession(t) /\ net[t].status # 200)
         => /\ task'[t].pc = "done" /\ task'[t].res = "error"
            /\ task'[t].err.message # ""
            /\ IF ServiceCodes(net[t].body) # {}
               THEN task'[t].err.code \in ServiceCodes(net[t].body)
               ELSE task'[t].err.code = StatusCode(net[t].status)]_vars

C16_Witness ==
    \E t \in Tasks :
        /\ task[t].pc = "done" /\ task[t].res = "error"
        /\ task[t].err = [code |-> "http_404", message |-> "HTTP 404"]

(***************************************************************************)
(* C17.  In the step in which createSessionForEmail succeeds, the session  *)
(* it returns has the token of the response and an expiry in ISO form, and *)
(* the record it leaves in the store is that session: loadSession right    *)
(* after the step returns the returned session, token and expiry.          *)
(***************************************************************************)
C17_SessionPersisted ==
    [][\A t \in Tasks :
         (EndsCreateSession(t) /\ net[t].status = 200)
         => /\ IsSome(task'[t].sess)
            /\ Val(task'[t].sess).token = net[t].rtoken
            /\ Val(task'[t].sess).expires_at.form = "iso"
            /\ session'.raw = "json"
            /\ session'.token = net[t].rtoken
            /\ session'.expires_at = Val(task'[t].sess).expires_at
            /\ loadSession' = task'[t].sess]_vars

C17_Witness ==
    \E t \in Tasks :
        /\ task[t].pc = "hdr"
        /\ session.token = Some(TokenFor(t))
        /\ session.expires_at = Iso(Hour)
        /\ task[t].sess = loadSession

(***************************************************************************)
(* C18.  In the step in which a logout completes (after its fetch was      *)
(* answered 200, answered with an error or rejected, or without a fetch    *)
(* because no valid session was stored) the stored session becomes absent, *)
(* and the logout ends without an error to its caller.                     *)
(***************************************************************************)
LogoutCompletes(t) ==
    /\ task'[t].pc = "done"
    /\ \/ task[t].pc \in {"out", "timer"}
       \/ task[t].pc = "idle" /\ task'[t].kind = "out"

C18_LogoutAlwaysClears ==
    [][\A t \in Tasks :
         /\ LogoutCompletes(t)
            => /\ session' = NoSession
               /\ loadSession' = None
               /\ task'[t].res = "ok"
               /\ task'[t].err = NoError
               /\ net'[t] = NoNet
         /\ (Awaiting(t, "out") /\ task'[t] # task[t]) => LogoutCompletes(t)]_vars

C18_Witness ==
    \E t \in Tasks :
        /\ task[t].kind = "out" /\ task[t].pc = "done"
        /\ task[t].seen = Some(0)
        /\ session = NoSession

(***************************************************************************)
(* C19.  Nothing is retried.  An invocation of an update (saveVault with   *)
(* updateVault, handleAddPassword or a rotation with putVaultWithVersion)  *)
(* sends at most one PUT /vault/, and none once it has seen a conflict.    *)
(* The step that handles a response sends a request only after a success, *)
(* after the 404 of a create-session endpoint that has a successor, or,    *)
(* after the 409 of a PUT, the first request of the refetch; that request  *)
(* is never the one just answered.  An invocation that has ended has       *)
(* nothing in flight.                                                      *)
(***************************************************************************)
HandlesResponse(t) == net[t].phase = "resp" /\ task'[t] # task[t]

C19_NoRetry ==
    /\ [](\A t \in Tasks :
            /\ task[t].puts <= 1
            /\ task[t].pc = "done" => net[t] = NoNet)
    /\ [][\A t \in Tasks :
            /\ (Sends(t) /\ net'[t].op = "put")
               => /\ task[t].puts = 0 /\ task'[t].puts = 1
                  /\ ~task[t].conflict /\ ~task'[t].conflict
            /\ (HandlesResponse(t) /\ Sends(t))
               => /\ <<net'[t].op, net'[t].url>> # <<net[t].op, net[t].url>>
                  /\ \/ net[t].status = 200
                     \/ net[t].status = 404 /\ net[t].op = "session"
                     \/ /\ net[t].status = 409 /\ net[t].op = "put"
                        /\ net'[t].op = "session"]_vars

C19_Witness ==
    \E t1 \in Tasks, t2 \in Tasks :
        /\ task[t1].kind = "upd" /\ task[t1].pc = "done"
        /\ task[t1].res = "error" /\ task[t1].puts = 1 /\ Accepted(t1)
        /\ task[t2].kind = "add" /\ task[t2].pc = "done"
        /\ task[t2].res = "conflict" /\ task[t2].puts = 1 /\ ~Accepted(t2)

(***************************************************************************)
(* isSessionExpired on its own: the store holds any record, time passes,   *)
(* and an invocation asks either revision of api.ts whether the loaded     *)
(* session is expired, as its getSessionToken does.                        *)
(***************************************************************************)
ExpiryInit == AuthInit

Asked(kind, expired) ==
    [IdleTask EXCEPT !.kind = kind, !.pc = "done",
                     !.res = IF expired THEN "expired" ELSE "valid"]

IsExpiredCall(t) ==
    /\ task[t].pc = "idle"
    /\ IsSome(loadSession)
    /\ task' = [task EXCEPT ![t] =
                  Asked("part_000", isSessionExpired(Val(loadSession)))]
    /\ UNCHANGED <<rng, blobs,
                   engine, now, session, srvCred, srvVault, srvVersion, srvLog,
                   masterPassword, vault, vaultVersion, net>>

IsExpiredCallPart001(t) ==
    /\ task[t].pc = "idle"
    /\ IsSome(loadSession)
    /\ task' = [task EXCEPT ![t] =
                  Asked("part_001", isSessionExpiredPart001(Val(loadSession)))]
    /\ UNCHANGED <<rng, blobs,
                   engine, now, session, srvCred, srvVault, srvVersion, srvLog,
                   masterPassword, vault, vaultVersion, net>>

ExpiryNext ==
    \/ Tick
    \/ \E t \in Tasks : IsExpiredCall(t)
    \/ \E t \in Tasks : IsExpiredCallPart001(t)

ExpirySpec == ExpiryInit /\ [][ExpiryNext]_vars

(***************************************************************************)
(* C20.  Asked about a stored session, isSessionExpired answers "expired"  *)
(* exactly when the expiry of the session does not parse to an instant or  *)
(* the current time is later than that instant.                            *)
(***************************************************************************)
AsksExpired(t) == task[t].pc = "idle" /\ task'[t].pc = "done"

C20_ExpiredExactly ==
    [][\A t \in Tasks :
         AsksExpired(t)
         => (task'[t].res = "expired"
               <=> \/ ~IsSome(DateParse(session.expires_at))
                   \/ now > Val(DateParse(session.expires_at)))]_vars

(***************************************************************************)
(* C21.  loadSession yields no session when nothing is stored under the    *)
(* key or what is stored does not parse, and so do getSessionToken and     *)
(* authHeadersIfAvailable.  Every operation that needs a session then does *)
(* what it does when logged out: ensureSession logs in anew,               *)
(* putVaultWithVersion and changePassword fail before sending anything,    *)
(* getVault and updateVault build no Authorization header, and logout      *)
(* sends nothing and leaves the key absent.                                *)
(***************************************************************************)
NothingReadable == session.raw # "json"

LoadsNoSession ==
    NothingReadable
    => /\ loadSession = None
       /\ getSessionToken = None
       /\ authHeadersIfAvailable = None
       /\ needsSession

\* The task calls logout in this step.
LogoutCall(t) ==
    /\ task[t].pc \in {"idle", "timer"}
    /\ task'[t].pc \in {"out", "done"}
    /\ task'[t].kind \in {"out", "set"}
    /\ task'[t].res # "error"
    /\ task'[t].res # "rejected"

C21_UnreadableIsLoggedOut ==
    /\ []LoadsNoSession
    /\ [][\A t \in Tasks :
            NothingReadable
            => /\ EnsureCall(t)
                  => /\ task'[t].pc = "sess"
                     /\ Sends(t)
                     /\ net'[t].op = "session"
               /\ RequiresToken(t)
                  => /\ net'[t] = NoNet
                     /\ task'[t].pc = "done"
                     /\ task'[t].res = "error"
                     /\ task'[t].err \in {NotAuthenticated, NoActiveSession}
                     /\ session' = session
               /\ ReadsHeaders(t)
                  => (Sends(t) /\ net'[t].auth = None)
               /\ LogoutCall(t)
                  => /\ net'[t] = NoNet
                     /\ task'[t].pc = "done"
                     /\ session' = NoSession]_vars

C21_Witness ==
    /\ session.raw = "garbled"
    /\ task["t1"].kind = "upd"
    /\ task["t1"].pc = "sess"
    /\ net["t1"].op = "session"

(***************************************************************************)
(* C22.  Every request getVault and updateVault send carries an            *)
(* Authorization header, and it is the header of the session that is       *)
(* stored and not expired at the time of sending.                          *)
(***************************************************************************)
\* The task sends the fetch of getVault or of updateVault in this step.
SendsVaultRequest(t) ==
    /\ task[t].pc = "hdr"
    /\ Sends(t)
    /\ net'[t].op \in {"get", "put"}

C22_VaultRequestsAuthorized ==
    [][\A t \in Tasks :
         SendsVaultRequest(t)
         => /\ StoredAndUnexpired
            /\ net'[t].auth = Some(TemplateText(session.token))]_vars

(***************************************************************************)
(* C23.  When no unexpired session is stored, changePassword and           *)
(* putVaultWithVersion end in the step that looks for the token: the       *)
(* handler fails with "Not authenticated" or "No active session. Please    *)
(* login again.", no request is sent, nothing is in flight for it, and the *)
(* stored record is left as it is.                                         *)
(***************************************************************************)
AuthenticationRequired == {NotAuthenticated, NoActiveSession}

C23_FailsBeforeSending ==
    [][\A t \in Tasks :
         (RequiresToken(t) /\ ~StoredAndUnexpired)
         => /\ ~Sends(t)
            /\ net'[t] = NoNet
            /\ task'[t].pc = "done"
            /\ task'[t].res = "error"
            /\ task'[t].err \in AuthenticationRequired
            /\ task'[t].err =
                  IF task[t].kind = "add" THEN NoActiveSession
                                          ELSE NotAuthenticated
            /\ task'[t].puts = task[t].puts
            /\ session' = session]_vars

C23_Witness ==
    /\ task["t1"].kind = "add" /\ task["t1"].pc = "done"
    /\ task["t1"].err = NoActiveSession
    /\ task["t1"].puts = 0
    /\ net["t1"] = NoNet
    /\ session.raw = "json" /\ session.expires_at = Iso(0) /\ now > 0

(***************************************************************************)
(* Expiry texts a response or a stored record may carry.                   *)
(***************************************************************************)
Instants == 0..(MaxTime + SessionTTL + Hour)

ExpiryTexts ==
    {Iso(t) : t \in Instants} \cup {Spaced(t) : t \in Instants}
    \cup {Junk, Empty}

\* createSessionForEmail stores the session of a 200 response in this step.
StoresSession(t) == EndsCreateSession(t) /\ net[t].status = 200

(***************************************************************************)
(* C28.  A spaced expiry "YYYY-MM-DD HH:MM:SS" is normalized to the        *)
(* instant that reading has in UTC, on every engine and in every           *)
(* timezone: normalizeExpiresToISO of the expiry of a login response, and  *)
(* the expiry the login stores, is that instant.                           *)
(***************************************************************************)
C28_SpacedReadAsUtc ==
    [][\A t \in Tasks :
         (StoresSession(t) /\ net[t].rexp.form = "spaced")
         => /\ normalizeExpiresToISO(net[t].rexp) = Iso(net[t].rexp.t)
            /\ session'.expires_at = Iso(net[t].rexp.t)]_vars

(***************************************************************************)
(* C29.  normalizeExpiresToISO always yields ISO text, and for an empty    *)
(* expiry or one nothing reads it yields the instant one hour after the    *)
(* call.  A login whose 200 response carries such an expiry succeeds: the  *)
(* session is returned and stored, and the stored expiry is one hour after *)
(* the time of the call.                                                   *)
(***************************************************************************)
Unreadable(x) ==
    x = Empty \/ (~IsSome(DateParse(x)) /\ ~IsSome(DateParse(AsUtcText(x))))

NormalizeNeverFails ==
    \A x \in ExpiryTexts :
        /\ normalizeExpiresToISO(x).form = "iso"
        /\ Unreadable(x) => normalizeExpiresToISO(x) = Iso(now + Hour)

C29_BadExpiryOneHour ==
    /\ []NormalizeNeverFails
    /\ [][\A t \in Tasks :
            (StoresSession(t) /\ Unreadable(net[t].rexp))
            => /\ task'[t].pc = IF task[t].kind = "login" THEN "done"
                                ELSE "hdr"
               /\ task'[t].err = NoError
               /\ task'[t].sess =
                     Some(SessionInfo(net[t].rtoken, Iso(now + Hour)))
               /\ session' = StoredSession(Val(task'[t].sess))
               /\ ~isSessionExpired(Val(loadSession))']_vars

C29_Witness ==
    /\ now = 1
    /\ task["t1"].pc = "hdr"
    /\ task["t1"].sess = Some(SessionInfo(Some(TokenFor("t1")), Iso(1 + Hour)))
    /\ session = StoredSession(Val(task["t1"].sess))

(***************************************************************************)
(* C30.  normalizeExpiresToISO maps ISO text to ISO text of the same       *)
(* instant, and applying it to its own result changes nothing, at          *)
(* whatever time the second application happens: the expiry                *)
(* createSessionForEmail returns (normalized once) and the expiry          *)
(* saveSession stores (normalized again) are the same instant.             *)
(***************************************************************************)
NormalizeIdempotent ==
    /\ \A i \in Instants :
          DateParse(normalizeExpiresToISO(Iso(i))) = Some(i)
    /\ \A x \in ExpiryTexts :
          /\ normalizeExpiresToISO(normalizeExpiresToISO(x))
                = normalizeExpiresToISO(x)
          /\ DateParse(normalizeExpiresToISO(normalizeExpiresToISO(x)))
                = DateParse(normalizeExpiresToISO(x))

MaxDraws == 6

CryptoInit ==
    /\ rng = 0
    /\ blobs = <<>>
    /\ engine = [lenient |-> TRUE, offset |-> 0]
    /\ now = 0
    /\ session = NoSession
    /\ srvCred = "p1"
    /\ srvVault = None
    /\ srvVersion = 0
    /\ srvLog = <<>>
    /\ masterPassword = ""
    /\ vault = <<>>
    /\ vaultVersion = 0
    /\ task = [t \in Tasks |-> IdleTask]
    /\ net = [t \in Tasks |-> NoNet]

\* encryptVault(v, p): salt and iv are drawn, the text is built and
\* returned, or the encoding throws.
EncryptCall(t, v, p) ==
    /\ task[t].pc = "idle"
    /\ rng + 2 <= MaxDraws
    /\ LET salt == getRandomValues(rng)
           iv == getRandomValues(rng + 1)
           text == encryptVaultText(v, p, salt, iv)
       IN  /\ rng' = rng + 2
           /\ IF IsSome(text)
              THEN /\ blobs' = Append(blobs, [salt |-> salt, iv |-> iv])
                   /\ task' = [task EXCEPT ![t] =
                                 [IdleTask EXCEPT !.kind = "crypt",
                                                  !.pc = "held",
                                                  !.data = v, !.mp = p,
                                                  !.text = text]]
              ELSE /\ blobs' = blobs
                   /\ task' = [task EXCEPT ![t] =
                                 [IdleTask EXCEPT !.kind = "crypt",
                                                  !.pc = "done",
                                                  !.data = v, !.mp = p,
                                                  !.res = "error",
                                                  !.err = RangeError]]
    /\ UNCHANGED <<engine, now, session, srvCred, srvVault, srvVersion,
                   srvLog, masterPassword, vault, vaultVersion, net>>

\* What may happen to a text between encryptVault and decryptVault: a
\* byte of the ciphertext, of the salt or of the nonce is changed, bytes
\* are lost at the end, the text is no longer base64; or the text was made
\* under the same password around something that is not a vault.
Harms == {"flip", "salt", "iv", "cut", "garble", "notjson", "null", "object"}

Sealed(bytes, plain) ==
    [bytes EXCEPT !.data = AesGcmEncrypt(bytes.data.key, bytes.data.iv, plain)]

Harmed(text, how) ==
    LET bytes == text.bytes
    IN  CASE how = "flip" ->
               [text EXCEPT !.bytes = [bytes EXCEPT !.data.intact = FALSE]]
          [] how = "salt" -> [text EXCEPT !.bytes = [bytes EXCEPT !.salt = 0]]
          [] how = "iv" -> [text EXCEPT !.bytes = [bytes EXCEPT !.iv = 0]]
          [] how = "cut" -> [text EXCEPT !.bytes = [bytes EXCEPT !.cut = TRUE]]
          [] how = "garble" -> NotBase64
          [] how = "notjson" -> [text EXCEPT !.bytes = Sealed(bytes, NotJson)]
          [] how = "null" -> [text EXCEPT !.bytes = Sealed(bytes, JsonNull)]
          [] OTHER -> [text EXCEPT !.bytes = Sealed(bytes, JsonNoEntries)]

Harm(t, how) ==
    /\ task[t].pc = "held"
    /\ task[t].harm = "none"
    /\ task' = [task EXCEPT ![t].harm = how,
                            ![t].text = Some(Harmed(Val(task[t].text), how))]
    /\ UNCHANGED <<rng, blobs,
                   engine, now, session, srvCred, srvVault, srvVersion,
                   srvLog, masterPassword, vault, vaultVersion, net>>

\* A bug: a catch block that hands on what it caught.
decryptCatch_Rethrow(thrown) == [code |-> "", message |-> thrown]

\* catch (error) { throw new Error("Failed to decrypt vault. ...") }
decryptCatch(thrown) == DecryptError

\* decryptVault(text, p): the vault, or the error of the catch block.
DecryptCall(t, p) ==
    /\ task[t].pc = "held"
    /\ LET r == TryDecrypt(Val(task[t].text), p)
       IN  task' = [task EXCEPT ![t] =
                      IF r.thrown = "none"
                      THEN [task[t] EXCEPT !.pc = "done", !.cur = p,
                                           !.res = "ok", !.got = r.vault]
                      ELSE [task[t] EXCEPT !.pc = "done", !.cur = p,
                                           !.res = "error",
                                           !.thrown = r.thrown,
                                           !.err = decryptCatch(r.thrown)]]
    /\ UNCHANGED <<rng, blobs,
                   engine, now, session, srvCred, srvVault, srvVersion,
                   srvLog, masterPassword, vault, vaultVersion, net>>

\* The caller is done with the text or the result and may call again.
Again(t) ==
    /\ task[t].kind = "crypt"
    /\ task[t].pc \in {"held", "done"}
    /\ task' = [task EXCEPT ![t] = IdleTask]
    /\ UNCHANGED <<rng, blobs,
                   engine, now, session, srvCred, srvVault, srvVersion,
                   srvLog, masterPassword, vault, vaultVersion, net>>

CryptoNext ==
    \E t \in Tasks :
        \/ \E v \in Vaults, p \in Passwords : EncryptCall(t, v, p)
        \/ \E how \in Harms : t \in Callers /\ Harm(t, how)
        \/ \E p \in Passwords : t \in Callers /\ DecryptCall(t, p)
        \/ Again(t)

CryptoSpec == CryptoInit /\ [][CryptoNext]_vars

(***************************************************************************)
(* Steps the properties of the cryptography name.                          *)
(***************************************************************************)
\* The task calls encryptVault / decryptVault in this step.
Encrypts(t) == task[t].pc = "idle" /\ task'[t].kind = "crypt"
Decrypts(t) == task[t].pc = "held" /\ task'[t].pc = "done"

\* decryptVault is given the text encryptVault returned.
Unharmed(t) == task[t].harm = "none"

\* decryptVault(encryptVault(v, p), p) is v, when encryptVault returned.
RoundTripOfReturned(t) ==
    (Decrypts(t) /\ Unharmed(t) /\ task'[t].cur = task[t].mp)
    => /\ task'[t].res = "ok"
       /\ task'[t].got = Some(task[t].data)

(***************************************************************************)
(* C24.  For every vault and password encryptVault returns a text, and     *)
(* decryptVault of that text under the same password returns the vault:    *)
(* the same entries in the same order.                                     *)
(***************************************************************************)
C24_RoundTrip ==
    [][\A t \in Tasks :
         /\ Encrypts(t) => IsSome(task'[t].text)
         /\ RoundTripOfReturned(t)]_vars

FailureCauses == {"flip", "salt", "iv", "cut", "garble", "notjson"}

C26_OneDecryptionError ==
    [][\A t \in Tasks :
         Decrypts(t)
         => /\ (task'[t].thrown # "none" \/ task'[t].res # "ok")
               => /\ task'[t].res = "error"
                  /\ task'[t].err = DecryptError
                  /\ task'[t].got = None
            /\ (task[t].harm \in FailureCauses \/ task'[t].cur # task[t].mp)
               => task'[t].thrown # "none"]_vars

C26_Witness ==
    /\ task["t1"].kind = "crypt" /\ task["t1"].pc = "done"
    /\ task["t1"].harm = "notjson"
    /\ task["t1"].cur = task["t1"].mp
    /\ task["t1"].thrown = "SyntaxError"
    /\ task["t1"].err = DecryptError
    /\ task["t1"].got = None

(***************************************************************************)
(* C27.  Every call of encryptVault draws a salt and a nonce of its own:   *)
(* no two texts encryptVault has returned have the same salt or the same   *)
(* nonce, also when they encrypt the same vault under the same password.   *)
(***************************************************************************)
NoSharedSaltOrNonce ==
    \A i \in DOMAIN blobs, j \in DOMAIN blobs :
        i # j => (blobs[i].salt # blobs[j].salt /\ blobs[i].iv # blobs[j].iv)

C27_FreshSaltAndNonce ==
    /\ []NoSharedSaltOrNonce
    /\ [][\A t \in Tasks :
            (Encrypts(t) /\ IsSome(task'[t].text))
            => /\ Len(blobs') = Len(blobs) + 1
               /\ Val(task'[t].text).bytes.salt = blobs'[Len(blobs')].salt
               /\ Val(task'[t].text).bytes.iv = blobs'[Len(blobs')].iv
               /\ \A i \in DOMAIN blobs :
                     /\ blobs'[i] = blobs[i]
                     /\ blobs[i].salt # Val(task'[t].text).bytes.salt
                     /\ blobs[i].iv # Val(task'[t].text).bytes.iv]_vars

C27_Witness ==
    /\ Len(blobs) = 3
    /\ task["t1"].pc = "held" /\ task["t2"].pc = "held"
    /\ task["t1"].harm = "none"
    /\ task["t1"].data = task["t2"].data
    /\ task["t1"].mp = task["t2"].mp
    /\ Val(task["t1"].text).bytes.salt # Val(task["t2"].text).bytes.salt
    /\ Val(task["t1"].text).bytes.iv # Val(task["t2"].text).bytes.iv

(***************************************************************************)
(* C31.  The stored session record has the members token and expires_at    *)
(* and no other, and its token is not a password.  A request carries a     *)
(* password only where the protocol asks for one: master_password in a     *)
(* create-session request, current and new password in a change-password   *)
(* request; the requests that read or write the vault and the logout       *)
(* carry none, nor is a password ever the bearer token.                    *)
(***************************************************************************)
AsToken(passwords) == {Some(p) : p \in passwords}

PasswordConfined ==
    /\ session.keys \subseteq {"token", "expires_at"}
    /\ session.token \notin AsToken(Passwords)
    /\ \A t \in Tasks :
          net[t].phase = "req"
          => /\ net[t].auth \notin AsToken(Passwords)
             /\ net[t].pw # "" => net[t].op = "session"
             /\ (net[t].cur # "" \/ net[t].new # "") => net[t].op = "change"
             /\ net[t].op \in {"get", "put", "logout"}
                => (net[t].pw = "" /\ net[t].cur = "" /\ net[t].new = "")

C31_PasswordConfined == []PasswordConfined

C31_Witness ==
    \E t \in Tasks :
        /\ task[t].kind = "rot" /\ task[t].cur = "p1" /\ task[t].new = "p2"
        /\ net[t].phase = "req" /\ net[t].op = "put"
        /\ session.raw = "json"
        /\ session.token = Some(TokenFor(t))

(***************************************************************************)
(* C32.  The step of putVaultWithVersion that handles a 409 sends no PUT   *)
(* and changes neither the local vault nor the local version: it starts    *)
(* one getVault.  When that getVault returns a vault the master password   *)
(* opens, the step that handles it replaces the local vault by the         *)
(* entries of the fetched vault and the local version by the fetched       *)
(* version, sends nothing further and ends the write as a conflict with    *)
(* one PUT sent in all.                                                    *)
(***************************************************************************)
\* putVaultWithVersion of the task handles a 409 in this step.
HandlesConflict(t) ==
    /\ Awaiting(t, "put")
    /\ task[t].kind \in {"add", "rot"}
    /\ net[t].status = 409
    /\ task'[t] # task[t]

\* The getVault of the 409 branch returns a vault in this step.
ReloadReturns(t) ==
    /\ Awaiting(t, "get")
    /\ task[t].reload
    /\ net[t].status = 200
    /\ IsSome(net[t].rblob)
    /\ Val(net[t].rblob).key = task[t].mp
    /\ task'[t] # task[t]

Names == {"a", "b"}

\* Entries added in one run.
MaxAdds == 1

VaultEntry(id, name) == [id |-> id, name |-> name]

\* A vault with entries made at earlier instants.
EarlierVault == <<VaultEntry(-2, "a"), VaultEntry(-1, "b")>>

\* id: editingEntry?.id || Date.now().toString()
newEntryId(editing) == IF IsSome(editing) THEN Val(editing).id ELSE now

\* A bug: the new entry put in front.
updatedEntriesOnSave_InFront(v, editing, newEntry) ==
    IF IsSome(editing)
    THEN [i \in DOMAIN v |->
            IF v[i].id = Val(editing).id THEN newEntry ELSE v[i]]
    ELSE <<newEntry>> \o v

\* editingEntry ? vault.entries.map(...) : [...vault.entries, newEntry]
updatedEntriesOnSave(v, editing, newEntry) ==
    IF IsSome(editing)
    THEN [i \in DOMAIN v |->
            IF v[i].id = Val(editing).id THEN newEntry ELSE v[i]]
    ELSE Append(v, newEntry)

\* vault.entries.filter((e) => e.id !== id)
updatedEntriesOnDelete(v, id) == SelectSeq(v, LAMBDA e : e.id # id)

EntryInit ==
    /\ rng = 0
    /\ blobs = <<>>
    /\ engine = [lenient |-> TRUE, offset |-> 0]
    /\ now = 0
    /\ session = NoSession
    /\ srvCred = "p1"
    /\ srvVault = None
    /\ srvVersion = 0
    /\ srvLog = <<>>
    /\ masterPassword = "p1"
    /\ vault \in {<<>>, EarlierVault}
    /\ vaultVersion = 0
    /\ task = [t \in Tasks |-> IdleTask]
    /\ net = [t \in Tasks |-> NoNet]

\* The entries the dialog may have been opened on.
Shown == {Some(vault[i]) : i \in DOMAIN vault}

\* handleSaveEntry with no entry being edited, to the await in saveVault;
\* the next click is at a later instant.
AddEntry(t, name) ==
    /\ task[t].pc = "idle"
    /\ masterPassword # ""
    /\ now < MaxAdds
    /\ now' = now + 1
    /\ LET newEntry == VaultEntry(newEntryId(None), name)
       IN  task' = [task EXCEPT ![t] =
                      [IdleTask EXCEPT
                          !.kind = "entry", !.pc = "saving", !.op = "add",
                          !.entry = Some(newEntry), !.base = vault,
                          !.data = updatedEntriesOnSave(vault, None, newEntry)]]
    /\ UNCHANGED <<rng, blobs,
                   engine, session, srvCred, srvVault, srvVersion, srvLog,
                   masterPassword, vault, vaultVersion, net>>

\* handleSaveEntry on the entry being edited, to the await in saveVault.
EditEntry(t, editing, name) ==
    /\ task[t].pc = "idle"
    /\ masterPassword # ""
    /\ LET newEntry == VaultEntry(newEntryId(editing), name)
       IN  task' = [task EXCEPT ![t] =
                      [IdleTask EXCEPT
                          !.kind = "entry", !.pc = "saving", !.op = "edit",
                          !.entry = Some(newEntry), !.base = vault,
                          !.data =
                             updatedEntriesOnSave(vault, editing, newEntry)]]
    /\ UNCHANGED <<rng, blobs,
                   engine, now, session, srvCred, srvVault, srvVersion,
                   srvLog, masterPassword, vault, vaultVersion, net>>

\* handleDeleteEntry(id), confirmed, to the await in saveVault.
DeleteEntry(t, e) ==
    /\ task[t].pc = "idle"
    /\ masterPassword # ""
    /\ task' = [task EXCEPT ![t] =
                  [IdleTask EXCEPT
                      !.kind = "entry", !.pc = "saving", !.op = "delete",
                      !.entry = e, !.base = vault,
                      !.data = updatedEntriesOnDelete(vault, Val(e).id)]]
    /\ UNCHANGED <<rng, blobs,
                   engine, now, session, srvCred, srvVault, srvVersion,
                   srvLog, masterPassword, vault, vaultVersion, net>>

\* saveVault after encryptVault and api.updateVault resolved.
SaveVaultDone(t) ==
    /\ task[t].pc = "saving"
    /\ vault' = task[t].data
    /\ task' = [task EXCEPT ![t].pc = "done", ![t].res = "ok"]
    /\ UNCHANGED <<rng, blobs,
                   engine, now, session, srvCred, srvVault, srvVersion,
                   srvLog, masterPassword, vaultVersion, net>>

\* saveVault after one of them threw: the catch block.
SaveVaultFailed(t) ==
    /\ task[t].pc = "saving"
    /\ task' = [task EXCEPT ![t].pc = "done", ![t].res = "error"]
    /\ UNCHANGED <<rng, blobs,
                   engine, now, session, srvCred, srvVault, srvVersion,
                   srvLog, masterPassword, vault, vaultVersion, net>>

\* The handler has returned and may be invoked again.
EntryAgain(t) ==
    /\ task[t].kind = "entry"
    /\ task[t].pc = "done"
    /\ task' = [task EXCEPT ![t] = IdleTask]
    /\ UNCHANGED <<rng, blobs,
                   engine, now, session, srvCred, srvVault, srvVersion,
                   srvLog, masterPassword, vault, vaultVersion, net>>

\* One dialog is open at a time.
EntryCallers == {"t1"}

EntryNext ==
    \E t \in EntryCallers :
        \/ \E name \in Names : AddEntry(t, name)
        \/ \E e \in Shown, name \in Names : EditEntry(t, e, name)
        \/ \E e \in Shown : DeleteEntry(t, e)
        \/ SaveVaultDone(t)
        \/ SaveVaultFailed(t)
        \/ EntryAgain(t)

EntrySpec == EntryInit /\ [][EntryNext]_vars

(***************************************************************************)
(* C33.  When an entry operation is saved, the vault is the vault the      *)
(* handler was invoked on with: for an add, the new entry after all the    *)
(* others; for an edit, the edited entry in the place of the entry with    *)
(* its id, with that id, and every other entry where it was; for a delete, *)
(* no entry with the given id and every other entry, in the order they     *)
(* were in.                                                                *)
(***************************************************************************)
\* The places of the entries of v that do not have the id, in order.
RECURSIVE Kept(_, _, _)
Kept(v, id, i) ==
    IF i > Len(v) THEN <<>>
    ELSE IF v[i].id = id THEN Kept(v, id, i + 1)
    ELSE <<i>> \o Kept(v, id, i + 1)

Saves(t) == task[t].pc = "saving" /\ task'[t].res = "ok"

C33_EntryOrder ==
    [][\A t \in Tasks :
         Saves(t)
         => LET base == task[t].base
                e == Val(task[t].entry)
                kept == Kept(base, e.id, 1)
            IN  CASE task[t].op = "add" ->
                       /\ Len(vault') = Len(base) + 1
                       /\ \A i \in DOMAIN base : vault'[i] = base[i]
                       /\ vault'[Len(vault')] = e
                  [] task[t].op = "edit" ->
                       /\ Len(vault') = Len(base)
                       /\ \A i \in DOMAIN base :
                             IF base[i].id = e.id
                             THEN vault'[i] = e
                             ELSE vault'[i] = base[i]
                  [] OTHER ->
                       /\ Len(vault') = Len(kept)
                       /\ \A k \in DOMAIN kept : vault'[k] = base[kept[k]]
                       /\ \A k \in DOMAIN vault' : vault'[k].id # e.id]_vars

C33_Witness ==
    /\ task["t1"].kind = "entry" /\ task["t1"].op = "delete"
    /\ task["t1"].pc = "done" /\ task["t1"].res = "ok"
    /\ Len(task["t1"].base) = 3
    /\ task["t1"].base[2].id = Val(task["t1"].entry).id
    /\ vault = <<task["t1"].base[1], task["t1"].base[3]>>
    /\ vault[1].name = "b"

(***************************************************************************)
(* C34.  When the only calls made were add-entry and rotation calls, none  *)
(* of them failed and no request is in flight, the local vault version is  *)
(* the server's version.                                                   *)
(***************************************************************************)
Quiet ==
    \A t \in Tasks :
        /\ net[t] = NoNet
        /\ task[t].pc \in {"idle", "done"}
        /\ task[t].kind \in {"none", "add", "rot"}
        /\ task[t].res \in {"none", "ok", "conflict"}

C34_QuietVersionsAgree == Quiet => vaultVersion = srvVersion

(***************************************************************************)
(* C35.  While the session a completed login stored is stored and not      *)
(* expired, only a logout invoked after the login completed removes or     *)
(* replaces it: the step is the invocation of a logout, or the end of a    *)
(* logout whose request carried this session's token.                      *)
(***************************************************************************)
\* The stored session is the one the login of t stored.
StoredByLogin(t) ==
    /\ task[t].kind = "login"
    /\ task[t].pc = "done"
    /\ task[t].res = "ok"
    /\ session = StoredSession(Val(task[t].sess))

\* The task ends a logout that was invoked with the stored session.
EndsLogoutOfStored(u) ==
    /\ Awaiting(u, "out")
    /\ task'[u].pc = "done"
    /\ task[u].sess = loadSession

C35_LoginSurvivesOldLogout ==
    [][\A t \in Tasks :
         (StoredByLogin(t) /\ StoredAndUnexpired /\ session' # session)
         => \E u \in Tasks : LogoutCall(u) \/ EndsLogoutOfStored(u)]_vars

(***************************************************************************)
(* C36.  After a save of the vault whose update request failed, the entry  *)
(* of that save is in the local vault only if the server stored it: the    *)
(* local vault is not left holding an edit that was not stored.            *)
(***************************************************************************)
Holds(v, t) == \E i \in DOMAIN v : v[i] = t

SaveFailed(t) ==
    /\ task[t].kind \in {"add", "upd"}
    /\ task[t].pc = "done"
    /\ task[t].res = "error"
    /\ task[t].puts > 0

C36_FailedSaveKeepsVault ==
    \A t \in Tasks :
        (SaveFailed(t) /\ Holds(vault, t))
        => IsSome(srvVault) /\ Holds(Val(srvVault).data, t)

(***************************************************************************)
(* C37.  The session "k0" the client starts with was created by the login  *)
(* with the password "p1".  A vault request is authorized with it only by  *)
(* a call that passed that password in.                                    *)
(***************************************************************************)
\* The password the invocation passed to getVault / ensureSession.
PassedIn(t) == IF task[t].kind = "rot" THEN task[t].cur ELSE task[t].mp

C37_SessionForItsPassword ==
    [][\A t \in Tasks :
         (SendsVaultRequest(t) /\ net'[t].auth = Some("k0"))
         => PassedIn(t) = "p1"]_vars

(***************************************************************************)
(* C38.  Every step of a createSessionForEmail other than the one that     *)
(* handles the 200 response of the resolved endpoint (its first request, a *)
(* fallback to the next endpoint after a 404, the end in an error after a  *)
(* transport failure or a response that is not ok) leaves the stored       *)
(* session record as it is.                                                *)
(***************************************************************************)
CreateSessionStep(t) ==
    /\ task'[t] # task[t]
    /\ InCreateSession(t) \/ task'[t].pc = "sess"

C38_FailureKeepsRecord ==
    [][\A t \in Tasks :
         (CreateSessionStep(t) /\ ~StoresSession(t)) => session' = session]_vars

C38_Witness ==
    \E t \in Tasks :
        /\ task[t].kind = "login"
        /\ task[t].pc = "done" /\ task[t].res = "error"
        /\ task[t].err.code = "http_401"
        /\ session = StoredSession(SessionInfo(Some("k0"), Iso(SessionTTL)))
        /\ ~isSessionExpired(Val(loadSession))

(***************************************************************************)
(* C39.  The expiry of every record saveSession writes parses, on the      *)
(* engine in use, to an instant: whatever expiry text the login response   *)
(* carried, and for as long as the record a login stored is in the store,  *)
(* the record is reported expired exactly when the current time is past    *)
(* that instant.                                                           *)
(***************************************************************************)
SavedExpiryParses ==
    \A x \in ExpiryTexts :
        IsSome(DateParse(saveSession(SessionInfo(Some("k0"), x)).expires_at))

\* The stored record is one a createSessionForEmail of this run saved.
SavedByLogin == session.raw = "json" /\ session.token \in AsToken(Tasks)

ExpiredOnlyByTime ==
    SavedByLogin
    => /\ IsSome(DateParse(session.expires_at))
       /\ isSessionExpired(Val(loadSession))
             <=> now > Val(DateParse(session.expires_at))

C39_SavedExpiryParses ==
    /\ []SavedExpiryParses
    /\ []ExpiredOnlyByTime
    /\ [][\A t \in Tasks :
            StoresSession(t) => IsSome(DateParse(session'.expires_at))]_vars

C39_Witness ==
    /\ ~engine.lenient
    /\ session.raw = "json"
    /\ session.token = Some(TokenFor("t1"))
    /\ session.expires_at = Iso(Hour)
    /\ now = Hour
    /\ ~isSessionExpired(Val(loadSession))

Next ==
    \/ Tick
    \/ Server
    \/ Client

Spec == Init /\ [][Next]_vars

=============================================================================
